---- MODULE Spec2Model ----
(***************************************************************************)
(* A model of the civic-issue reporting application: the issue store, the  *)
(* analysis pipeline (category, spam, duplicate detection), the hotspot    *)
(* clusterer and the API layer above them.                                 *)
(*                                                                         *)
(* Text is modelled as a sequence of one-character strings, so that        *)
(* toLowerCase, trim, split and includes are computed as the code computes *)
(* them.  Scores the code keeps as floating-point sums of 0.05 multiples   *)
(* are kept as integers in units of 0.05 (20 units = 1.0).                 *)
(***************************************************************************)
EXTENDS Integers, Sequences, FiniteSets, Bags, TLC

VARIABLES
  issues,      \* the records under "issues": key -> record
  nextKey,     \* how many keys push() has handed out under "issues"
  analyses,    \* the records under "ml_analyses", a bag
  analytics,   \* the events under "analytics", a bag
  now,         \* the clock new Date() reads
  calls,       \* the API calls in flight: slot -> call record, or Idle
  upvoted,     \* history: key -> the values upvoteIssue calls have returned
  spamParts,   \* the fragments of the text handed to detectSpam
  spamOut,     \* detectSpam's result for that text, or Null before the call
  hotspots,    \* hotspots/: key -> hotspot record
  runs,        \* history: for each generateHotspotPredictions call that has
               \* returned, whether it threw
  fnArgs,      \* the arguments handed to a function called on its own
  fnOut,       \* what that function returned, or Null before the call
  blobs        \* the image blobs in storage: a set of [issueId, name]

storeVars == <<issues, nextKey, analyses, analytics, now>>
callVars == <<calls, upvoted>>
spamVars == <<spamParts, spamOut>>
hotVars == <<hotspots, runs>>
fnVars == <<fnArgs, fnOut>>
fileVars == <<blobs>>
vars == <<issues, nextKey, analyses, analytics, now, calls, upvoted,
          spamParts, spamOut, hotspots, runs, fnArgs, fnOut, blobs>>

Null == <<>>

(***************************************************************************)
(* Bounds of the model                                                     *)
(***************************************************************************)
MaxFragments == 3     \* fragments a scored text is put together from
MaxInFlight == 2      \* API calls in flight together
MaxIssues == 1        \* issues created
MaxUpvotes == 3       \* upvoteIssue calls made on one issue
MaxResolved == 1      \* issue_resolved events logged for one issue
MaxCorpus == 3        \* issues stored when hotspots are generated
MaxRuns == 2          \* generateHotspotPredictions calls made
MaxListed == 6        \* issues stored when similar issues are looked up
MaxBlobs == 2         \* images uploaded for one issue
MaxStored == 2        \* issues stored when issues are deleted
MaxAnalyses == 2      \* apiAnalyzeContent calls that store a result
MaxHotspots == 2      \* hotspots stored when the expired ones are deactivated
MaxClustered == 6     \* issues stored when clusters are formed on their own
MaxClock == 0         \* the last millisecond apiAnalyzeContent reads; uploads read one more

Min(a, b) == IF a < b THEN a ELSE b
Max(a, b) == IF a > b THEN a ELSE b

(***************************************************************************)
(* Strings                                                                 *)
(***************************************************************************)
UpperChars == <<"A", "B", "C", "D", "E", "F", "G", "H", "I", "J", "K", "L", "M",
                "N", "O", "P", "Q", "R", "S", "T", "U", "V", "W", "X", "Y", "Z">>
LowerChars == <<"a", "b", "c", "d", "e", "f", "g", "h", "i", "j", "k", "l", "m",
                "n", "o", "p", "q", "r", "s", "t", "u", "v", "w", "x", "y", "z">>

IsUpper(c) == \E i \in DOMAIN UpperChars : UpperChars[i] = c

\* String.prototype.toLowerCase
toLowerCase(s) ==
  [i \in DOMAIN s |->
     IF IsUpper(s[i])
       THEN LowerChars[CHOOSE k \in DOMAIN UpperChars : UpperChars[k] = s[i]]
       ELSE s[i]]

\* String.prototype.includes: t occurs in s as a contiguous substring
includes(s, t) ==
  \E i \in 0..(Len(s) - Len(t)) : SubSeq(s, i + 1, i + Len(t)) = t

IsSpace(c) == c = " "

RECURSIVE trimStart(_)
trimStart(s) ==
  IF s # <<>> /\ IsSpace(Head(s)) THEN trimStart(Tail(s)) ELSE s

RECURSIVE trimEnd(_)
trimEnd(s) ==
  IF s # <<>> /\ IsSpace(s[Len(s)]) THEN trimEnd(SubSeq(s, 1, Len(s) - 1)) ELSE s

\* String.prototype.trim
trim(s) == trimEnd(trimStart(s))

\* (s.match(/[A-Z]/g) || []).length
CountUpper(s) == Cardinality({i \in DOMAIN s : IsUpper(s[i])})

\* String.prototype.split(/\s+/): the pieces between maximal runs of
\* whitespace; leading or trailing whitespace, and the empty string, give an
\* empty piece
RECURSIVE SplitFrom(_, _)
SplitFrom(s, cur) ==
  IF s = <<>> THEN <<cur>>
  ELSE IF IsSpace(Head(s)) THEN <<cur>> \o SplitFrom(trimStart(Tail(s)), <<>>)
  ELSE SplitFrom(Tail(s), Append(cur, Head(s)))

split(s) == SplitFrom(s, <<>>)

\* new Set([...a, ...b])
SeqToSet(q) == {q[i] : i \in DOMAIN q}

(***************************************************************************)
(* Spam scorer                                                             *)
(***************************************************************************)
SPAM_THRESHOLD == 8          \* 0.4
URL_WEIGHT == 3              \* 0.15
PROMOTIONAL_WEIGHT == 4      \* 0.2
INAPPROPRIATE_WEIGHT == 3    \* 0.15
FLAG_WEIGHT == 2             \* 0.1
SCORE_ONE == 20              \* 1.0

spamPatterns ==
  [urls |->
     <<<<"h", "t", "t", "p", ":", "/", "/">>,
       <<"h", "t", "t", "p", "s", ":", "/", "/">>,
       <<"w", "w", "w", ".">>,
       <<".", "c", "o", "m">>,
       <<".", "i", "n">>,
       <<".", "o", "r", "g">>>>,
   promotional |->
     <<<<"b", "u", "y", " ", "n", "o", "w">>,
       <<"c", "l", "i", "c", "k", " ", "h", "e", "r", "e">>,
       <<"f", "r", "e", "e", " ", "m", "o", "n", "e", "y">>,
       <<"l", "o", "t", "t", "e", "r", "y">>,
       <<"w", "i", "n", "n", "e", "r">>,
       <<"p", "r", "i", "z", "e">>,
       <<"o", "f", "f", "e", "r">>>>,
   inappropriate |->
     <<<<"a", "d", "v", "e", "r", "t", "i", "s", "e", "m", "e", "n", "t">>,
       <<"p", "r", "o", "m", "o", "t", "e">>,
       <<"s", "a", "l", "e">>,
       <<"d", "i", "s", "c", "o", "u", "n", "t">>,
       <<"l", "i", "m", "i", "t", "e", "d", " ", "t", "i", "m", "e">>>>]

SpecialChars ==
  {"!", "@", "#", "$", "%", "^", "&", "*", "(", ")", "_", "+", "=", "[", "]",
   "{", "}", ";", "'", ":", "\"", "\\", "|", ",", ".", "<", ">", "/", "?"}

\* (s.match(/[!@#...]/g) || []).length
CountSpecial(s) == Cardinality({i \in DOMAIN s : s[i] \in SpecialChars})

\* a mutant of MatchedPatterns: the loop stops at the first pattern found
MatchedFirstPattern(lowerText, patterns) ==
  LET all == SelectSeq(patterns, LAMBDA p : includes(lowerText, p))
  IN  IF all = <<>> THEN <<>> ELSE <<Head(all)>>

\* the patterns of one list found in the lower-cased text, in list order
MatchedPatterns(lowerText, patterns) ==
  SelectSeq(patterns, LAMBDA p : includes(lowerText, p))

PatternReasons(kind, matched) ==
  [i \in DOMAIN matched |-> [reason |-> kind, pattern |-> matched[i]]]

\* capsRatio > 0.5 && text.length > 10
ExcessiveCaps(text) ==
  2 * CountUpper(text) > Max(Len(text), 1) /\ Len(text) > 10

\* text.trim().length < 10
TooShort(text) == Len(trim(text)) < 10

\* /(.)\1{4,}/.test(text)
RepeatedChars(text) ==
  \E i \in 1..(Len(text) - 4) : \A k \in 1..4 : text[i + k] = text[i]

\* specialCharRatio > 0.2
ExcessiveSpecial(text) ==
  5 * CountSpecial(text) > Max(Len(text), 1)

FlagReason(cond, name) ==
  IF cond THEN <<[reason |-> name, pattern |-> <<>>]>> ELSE <<>>

SpamRawScore(text) ==
  LET lowerText == toLowerCase(text)
  IN  URL_WEIGHT * Len(MatchedPatterns(lowerText, spamPatterns.urls))
      + PROMOTIONAL_WEIGHT * Len(MatchedPatterns(lowerText, spamPatterns.promotional))
      + INAPPROPRIATE_WEIGHT * Len(MatchedPatterns(lowerText, spamPatterns.inappropriate))
      + (IF ExcessiveCaps(text) THEN FLAG_WEIGHT ELSE 0)
      + (IF TooShort(text) THEN FLAG_WEIGHT ELSE 0)
      + (IF RepeatedChars(text) THEN FLAG_WEIGHT ELSE 0)
      + (IF ExcessiveSpecial(text) THEN FLAG_WEIGHT ELSE 0)

SpamReasons(text) ==
  LET lowerText == toLowerCase(text)
  IN  PatternReasons("Contains URL pattern",
                     MatchedPatterns(lowerText, spamPatterns.urls))
      \o PatternReasons("Contains promotional content",
                        MatchedPatterns(lowerText, spamPatterns.promotional))
      \o PatternReasons("Contains suspicious pattern",
                        MatchedPatterns(lowerText, spamPatterns.inappropriate))
      \o FlagReason(ExcessiveCaps(text), "Excessive capital letters")
      \o FlagReason(TooShort(text), "Description too short")
      \o FlagReason(RepeatedChars(text), "Contains repeated characters")
      \o FlagReason(ExcessiveSpecial(text), "Excessive special characters")

\* isSpam: score >= ML_CONFIG.SPAM_THRESHOLD, on the unclamped sum
SpamIsSpam(raw) == raw >= SPAM_THRESHOLD

\* a mutant of SpamClampedScore: the sum returned as it is
SpamUnclampedScore(raw) == raw

\* score: Math.min(score, 1)
SpamClampedScore(raw) == Min(raw, SCORE_ONE)

detectSpam(text) ==
  LET raw == SpamRawScore(text)
  IN  [isSpam  |-> SpamIsSpam(raw),
       score   |-> SpamClampedScore(raw),
       reasons |-> SpamReasons(text)]

(***************************************************************************)
(* The issue store (Firebase path "issues")                                *)
(***************************************************************************)
\* a field the record does not have
Undefined == <<"undefined">>

\* the key push() hands out for the n-th new child
PushKey(n) == <<"push", n>>

\* `temp-${Date.now()}`
TempKey(ms) == <<"temp", ms>>

\* the order snapshot.forEach visits children in: push keys start with "-",
\* which sorts before "temp-"; push keys and temp keys sort by age
KeyBefore(a, b) ==
  \/ a[1] = b[1] /\ a[2] < b[2]
  \/ a[1] = "push" /\ b[1] = "temp"

\* the children of a snapshot in the order forEach visits them
RECURSIVE InKeyOrder(_)
InKeyOrder(keys) ==
  IF keys = {} THEN <<>>
  ELSE LET k == CHOOSE x \in keys : \A y \in keys \ {x} : KeyBefore(x, y)
       IN  <<k>> \o InKeyOrder(keys \ {k})

\* time(a.timestamp) > time(b.timestamp); the time of a record without a
\* timestamp is NaN, which the comparator of sort turns into "equal"
Newer(a, b) ==
  /\ "timestamp" \in DOMAIN a
  /\ "timestamp" \in DOMAIN b
  /\ a.timestamp > b.timestamp

\* the entries no entry is newer than
Newest(q) == {j \in DOMAIN q : \A k \in DOMAIN q : ~Newer(q[k].rec, q[j].rec)}

\* issues.sort((a, b) => time(b.timestamp) - time(a.timestamp)); the sort is
\* stable: of the newest entries, the one listed first comes first.  Where a
\* list holds a record without timestamp its order depends on the engine's
\* sort; findSimilarIssues throws on such a list whatever its order.
RECURSIVE SortNewestFirst(_)
SortNewestFirst(q) ==
  IF q = <<>> THEN <<>>
  ELSE LET i == CHOOSE j \in Newest(q) : \A k \in Newest(q) : j <= k
       IN  <<q[i]>> \o SortNewestFirst(SubSeq(q, 1, i - 1) \o SubSeq(q, i + 1, Len(q)))

\* getIssues() without filters: every record with its id, newest first
getIssues(store) ==
  LET snapshot == InKeyOrder(DOMAIN store)
      listed == [i \in DOMAIN snapshot |->
                   [id |-> snapshot[i], rec |-> store[snapshot[i]]]]
  IN  SortNewestFirst(listed)

(***************************************************************************)
(* Similarity engine                                                       *)
(***************************************************************************)
MIN_DUPLICATE_SIMILARITY == [num |-> 7, den |-> 10]
SIMILAR_LISTED_ABOVE == [num |-> 3, den |-> 10]
TOP_SIMILAR == 5

\* comparison of two fractions with positive denominators
FracGreater(x, y) == x.num * y.den > y.num * x.den
FracAtLeast(x, y) == x.num * y.den >= y.num * x.den

\* new Set([...title.toLowerCase().split(/\s+/),
\*          ...description.toLowerCase().split(/\s+/)])
WordSet(title, description) ==
  SeqToSet(split(toLowerCase(title))) \cup SeqToSet(split(toLowerCase(description)))

\* a mutant of Jaccard: the sizes of the two sets added up for the union
JaccardOfSizes(inputWords, issueWords) ==
  [num |-> Cardinality(inputWords \cap issueWords),
   den |-> Cardinality(inputWords) + Cardinality(issueWords)]

\* intersection / union of the two word sets, as a fraction; the union is
\* never empty, since split gives at least one (possibly empty) word
Jaccard(inputWords, issueWords) ==
  [num |-> Cardinality(inputWords \cap issueWords),
   den |-> Cardinality(inputWords \cup issueWords)]

\* issue.location contains location, or location contains issue.location
LocationMatch(issueLocation, location) ==
  \/ includes(toLowerCase(issueLocation), toLowerCase(location))
  \/ includes(toLowerCase(location), toLowerCase(issueLocation))

\* similarity * 0.7 + (locationMatch ? 0.3 : 0)
FinalSimilarity(jaccard, locationMatch) ==
  [num |-> 7 * jaccard.num + (IF locationMatch THEN 3 * jaccard.den ELSE 0),
   den |-> 10 * jaccard.den]

\* a mutant of SortMostSimilarFirst: the results stay in the order found
LeftUnsorted(q) == q

\* results.sort((a, b) => b.similarity - a.similarity); the sort is stable
RECURSIVE SortMostSimilarFirst(_)
SortMostSimilarFirst(q) ==
  IF q = <<>> THEN <<>>
  ELSE LET i == CHOOSE j \in DOMAIN q :
                  /\ \A k \in DOMAIN q : FracAtLeast(q[j].similarity, q[k].similarity)
                  /\ \A k \in 1..(j - 1) : FracGreater(q[j].similarity, q[k].similarity)
       IN  <<q[i]>> \o SortMostSimilarFirst(SubSeq(q, 1, i - 1)
                                            \o SubSeq(q, i + 1, Len(q)))

\* a stored record on which issue.title.toLowerCase() (or description,
\* location) throws a TypeError
Malformed(rec) ==
  rec.title = Undefined \/ rec.description = Undefined \/ rec.location = Undefined

\* findSimilarIssues on the list getIssues returned: the entries with final
\* similarity above 0.3, most similar first, at most five of them; it throws
\* when it meets a record without title, description or location
findSimilarIssues(listed, title, description, location) ==
  LET inputWords == WordSet(title, description)
      scored == [i \in DOMAIN listed |->
                   [issue |-> listed[i],
                    similarity |->
                      FinalSimilarity(
                        Jaccard(inputWords,
                                WordSet(listed[i].rec.title, listed[i].rec.description)),
                        LocationMatch(listed[i].rec.location, location))]]
      results == SelectSeq(scored,
                           LAMBDA r : FracGreater(r.similarity, SIMILAR_LISTED_ABOVE))
      sorted == SortMostSimilarFirst(results)
  IN  IF \E i \in DOMAIN listed : Malformed(listed[i].rec)
        THEN [threw |-> TRUE, results |-> <<>>]
        ELSE [threw |-> FALSE,
              results |-> SubSeq(sorted, 1, Min(TOP_SIMILAR, Len(sorted)))]

NotDuplicate ==
  [isDuplicate |-> FALSE, duplicateIssueId |-> Null, similarity |-> Null]

\* a mutant of IsDuplicateSimilarity: anything listed counts as a duplicate
IsDuplicateWhenListed(similarity) == FracGreater(similarity, SIMILAR_LISTED_ABOVE)

\* a mutant of IsDuplicateSimilarity: the threshold itself is not enough
IsDuplicateAbove(similarity) == FracGreater(similarity, MIN_DUPLICATE_SIMILARITY)

\* similarIssues[0].similarity >= ML_CONFIG.MIN_DUPLICATE_SIMILARITY
IsDuplicateSimilarity(similarity) ==
  FracAtLeast(similarity, MIN_DUPLICATE_SIMILARITY)

\* a mutant of checkForDuplicates: a failed check counts as a duplicate
checkForDuplicatesFlagsFailure(found) ==
  IF found.threw
    THEN [isDuplicate |-> TRUE, duplicateIssueId |-> Null, similarity |-> Null]
  ELSE IF Len(found.results) > 0
          /\ IsDuplicateSimilarity(found.results[1].similarity)
    THEN [isDuplicate |-> TRUE,
          duplicateIssueId |-> found.results[1].issue.id,
          similarity |-> found.results[1].similarity]
    ELSE NotDuplicate

\* checkForDuplicates, given what findSimilarIssues('', description, location)
\* did: a thrown error is caught and gives "not a duplicate"
checkForDuplicates(found) ==
  IF ~found.threw /\ Len(found.results) > 0
     /\ IsDuplicateSimilarity(found.results[1].similarity)
    THEN [isDuplicate |-> TRUE,
          duplicateIssueId |-> found.results[1].issue.id,
          similarity |-> found.results[1].similarity]
    ELSE NotDuplicate

(***************************************************************************)
(* Content classifier and the analysis result                              *)
(*                                                                         *)
(* Confidence and image-quality scores are kept in thousandths.  A call of *)
(* Math.random() is a choice among RandomTenths (in tenths, below 1).      *)
(***************************************************************************)
categoryKeywords ==
  <<
    [category |-> "roads", keywords |->
     <<<<"p", "o", "t", "h", "o", "l", "e">>,
       <<"r", "o", "a", "d">>,
       <<"s", "t", "r", "e", "e", "t">>,
       <<"h", "i", "g", "h", "w", "a", "y">>,
       <<"p", "a", "v", "e", "m", "e", "n", "t">>,
       <<"c", "r", "a", "c", "k">>,
       <<"b", "r", "o", "k", "e", "n", " ", "r", "o", "a", "d">>,
       <<"d", "a", "m", "a", "g", "e", "d", " ", "r", "o", "a", "d">>,
       <<"t", "a", "r">>,
       <<"a", "s", "p", "h", "a", "l", "t">>,
       <<"f", "o", "o", "t", "p", "a", "t", "h">>,
       <<"c", "r", "o", "s", "s", "i", "n", "g">>,
       <<"d", "i", "v", "i", "d", "e", "r">>,
       <<"s", "p", "e", "e", "d", " ", "b", "u", "m", "p">>>>],
    [category |-> "water", keywords |->
     <<<<"w", "a", "t", "e", "r">>,
       <<"p", "i", "p", "e">>,
       <<"l", "e", "a", "k">>,
       <<"l", "e", "a", "k", "a", "g", "e">>,
       <<"d", "r", "a", "i", "n", "a", "g", "e">>,
       <<"d", "r", "a", "i", "n">>,
       <<"f", "l", "o", "o", "d">>,
       <<"f", "l", "o", "o", "d", "i", "n", "g">>,
       <<"s", "e", "w", "a", "g", "e">>,
       <<"s", "e", "w", "e", "r">>,
       <<"t", "a", "p">>,
       <<"s", "u", "p", "p", "l", "y">>,
       <<"d", "i", "r", "t", "y", " ", "w", "a", "t", "e", "r">>,
       <<"c", "o", "n", "t", "a", "m", "i", "n", "a", "t", "e", "d">>,
       <<"w", "a", "t", "e", "r", "l", "o", "g", "g", "i", "n", "g">>,
       <<"p", "i", "p", "e", "l", "i", "n", "e">>,
       <<"o", "v", "e", "r", "f", "l", "o", "w">>,
       <<"g", "u", "t", "t", "e", "r">>>>],
    [category |-> "electricity", keywords |->
     <<<<"l", "i", "g", "h", "t">>,
       <<"p", "o", "l", "e">>,
       <<"w", "i", "r", "e">>,
       <<"e", "l", "e", "c", "t", "r", "i", "c">>,
       <<"p", "o", "w", "e", "r">>,
       <<"s", "t", "r", "e", "e", "t", "l", "i", "g", "h", "t">>,
       <<"o", "u", "t", "a", "g", "e">>,
       <<"b", "l", "a", "c", "k", "o", "u", "t">>,
       <<"t", "r", "a", "n", "s", "f", "o", "r", "m", "e", "r">>,
       <<"c", "a", "b", "l", "e">>,
       <<"s", "p", "a", "r", "k">>,
       <<"s", "h", "o", "r", "t", " ", "c", "i", "r", "c", "u", "i", "t">>,
       <<"m", "e", "t", "e", "r">>,
       <<"v", "o", "l", "t", "a", "g", "e">>,
       <<"c", "u", "r", "r", "e", "n", "t">>>>],
    [category |-> "sanitation", keywords |->
     <<<<"g", "a", "r", "b", "a", "g", "e">>,
       <<"t", "r", "a", "s", "h">>,
       <<"w", "a", "s", "t", "e">>,
       <<"d", "u", "m", "p">>,
       <<"d", "i", "r", "t", "y">>,
       <<"l", "i", "t", "t", "e", "r">>,
       <<"b", "i", "n">>,
       <<"o", "v", "e", "r", "f", "l", "o", "w">>,
       <<"s", "m", "e", "l", "l">>,
       <<"u", "n", "h", "y", "g", "i", "e", "n", "i", "c">>,
       <<"c", "l", "e", "a", "n", "l", "i", "n", "e", "s", "s">>,
       <<"s", "w", "e", "e", "p", "i", "n", "g">>,
       <<"d", "u", "s", "t", "b", "i", "n">>,
       <<"s", "o", "l", "i", "d", " ", "w", "a", "s", "t", "e">>,
       <<"p", "l", "a", "s", "t", "i", "c">>,
       <<"d", "e", "b", "r", "i", "s">>,
       <<"f", "i", "l", "t", "h">>>>],
    [category |-> "public-spaces", keywords |->
     <<<<"p", "a", "r", "k">>,
       <<"g", "a", "r", "d", "e", "n">>,
       <<"p", "l", "a", "y", "g", "r", "o", "u", "n", "d">>,
       <<"b", "e", "n", "c", "h">>,
       <<"p", "u", "b", "l", "i", "c">>,
       <<"f", "o", "o", "t", "p", "a", "t", "h">>,
       <<"s", "i", "d", "e", "w", "a", "l", "k">>,
       <<"t", "r", "e", "e">>,
       <<"g", "r", "e", "e", "n">>,
       <<"r", "a", "i", "l", "i", "n", "g">>,
       <<"f", "e", "n", "c", "e">>,
       <<"g", "a", "t", "e">>,
       <<"c", "o", "m", "m", "u", "n", "i", "t", "y">>,
       <<"r", "e", "c", "r", "e", "a", "t", "i", "o", "n", "a", "l">>>>],
    [category |-> "transportation", keywords |->
     <<<<"b", "u", "s">>,
       <<"s", "t", "o", "p">>,
       <<"s", "t", "a", "t", "i", "o", "n">>,
       <<"t", "r", "a", "f", "f", "i", "c">>,
       <<"s", "i", "g", "n", "a", "l">>,
       <<"s", "i", "g", "n">>,
       <<"m", "e", "t", "r", "o">>,
       <<"r", "a", "i", "l", "w", "a", "y">>,
       <<"t", "r", "a", "n", "s", "p", "o", "r", "t">>,
       <<"a", "u", "t", "o">>,
       <<"r", "i", "c", "k", "s", "h", "a", "w">>,
       <<"p", "a", "r", "k", "i", "n", "g">>,
       <<"z", "e", "b", "r", "a", " ", "c", "r", "o", "s", "s", "i", "n", "g">>,
       <<"p", "e", "d", "e", "s", "t", "r", "i", "a", "n">>>>],
    [category |-> "other", keywords |->
     <<>>]
  >>

RandomTenths == {0, 9}

\* keywords.filter(kw => description.includes(kw)).length
KeywordMatches(description, keywords) ==
  Cardinality({i \in DOMAIN keywords : includes(description, keywords[i])})

\* a mutant of BestCategory: a later category wins with as many matches
RECURSIVE BestCategoryLastWins(_, _)
BestCategoryLastWins(description, n) ==
  IF n = 0 THEN [category |-> "other", maxScore |-> 0]
  ELSE LET best == BestCategoryLastWins(description, n - 1)
           matches == KeywordMatches(description, categoryKeywords[n].keywords)
       IN  IF matches >= best.maxScore /\ matches > 0
             THEN [category |-> categoryKeywords[n].category, maxScore |-> matches]
             ELSE best

\* the loop of predictCategory over the first n categories: the best category
\* so far and its score; a later category wins only with strictly more matches
RECURSIVE BestCategory(_, _)
BestCategory(description, n) ==
  IF n = 0 THEN [category |-> "other", maxScore |-> 0]
  ELSE LET best == BestCategory(description, n - 1)
           matches == KeywordMatches(description, categoryKeywords[n].keywords)
       IN  IF matches > best.maxScore
             THEN [category |-> categoryKeywords[n].category, maxScore |-> matches]
             ELSE best

\* the confidence band of a best score, r being the random draw
CategoryConfidence(maxScore, r) ==
  LET confidence == IF maxScore = 0 THEN 300 + (r * 200) \div 10
                    ELSE IF maxScore = 1 THEN 500 + (r * 150) \div 10
                    ELSE IF maxScore = 2 THEN 700 + (r * 100) \div 10
                    ELSE 850 + (r * 100) \div 10
  IN  Min(confidence, 950)

predictCategory(description, r) ==
  LET best == BestCategory(description, Len(categoryKeywords))
  IN  [category |-> best.category,
       confidence |-> CategoryConfidence(best.maxScore, r)]

\* assessImageQuality, r being the random draw
assessImageQuality(imageUrl, r) ==
  LET base == 500 + (r * 500) \div 10
      score == IF \/ includes(imageUrl, <<"u", "n", "s", "p", "l", "a", "s", "h">>)
                  \/ includes(imageUrl, <<"p", "e", "x", "e", "l", "s">>)
                 THEN Min(base + 200, 1000)
                 ELSE base
  IN  [quality |-> IF score > 850 THEN "excellent"
                   ELSE IF score > 700 THEN "good"
                   ELSE IF score > 500 THEN "fair"
                   ELSE "poor",
       score |-> score]

\* processLocally, given what findSimilarIssues('', userDescription,
\* userLocation) did and the two random draws.  The suggested title, the enhanced description and
\* the extracted location, which no store operation reads, are left out of
\* the result.
processLocally(found, imageUrl, userDescription, rConf, rQual) ==
  LET predicted == predictCategory(toLowerCase(userDescription), rConf)
      spamResult == detectSpam(userDescription)
      duplicateResult == checkForDuplicates(found)
      quality == assessImageQuality(imageUrl, rQual)
  IN  [predictedCategory |-> predicted.category,
       categoryConfidence |-> predicted.confidence,
       isDuplicate |-> duplicateResult.isDuplicate,
       duplicateIssueId |-> duplicateResult.duplicateIssueId,
       duplicateSimilarity |-> duplicateResult.similarity,
       isSpam |-> spamResult.isSpam,
       spamScore |-> spamResult.score,
       spamReasons |-> spamResult.reasons,
       imageQuality |-> quality.quality,
       imageQualityScore |-> quality.score]

\* getDefaultMLResult
getDefaultMLResult ==
  [predictedCategory |-> "other",
   categoryConfidence |-> 300,
   isDuplicate |-> FALSE,
   duplicateIssueId |-> Null,
   duplicateSimilarity |-> Null,
   isSpam |-> FALSE,
   spamScore |-> 0,
   spamReasons |-> Undefined,
   imageQuality |-> "fair",
   imageQualityScore |-> 500]

\* calculatePriority
calculatePriority(analysis) ==
  IF analysis.isSpam THEN "low"
  ELSE IF analysis.isDuplicate THEN "low"
  ELSE IF analysis.predictedCategory \in {"electricity", "water"}
          /\ analysis.categoryConfidence > 800 THEN "high"
  ELSE "medium"

(***************************************************************************)
(* The store operations and the API calls above them.  A call occupies a   *)
(* slot from its start until its caller has taken the response; every     *)
(* await of the code is a step of its own, and a step on the store either  *)
(* succeeds or throws (ok).                                                *)
(***************************************************************************)
Idle == [op |-> "idle"]

StoreInit ==
  /\ issues = <<>>
  /\ nextKey = 0
  /\ analyses = EmptyBag
  /\ analytics = EmptyBag
  /\ now = 0

CallsInit ==
  /\ calls = [c \in 1..MaxInFlight |-> Idle]
  /\ upvoted = <<>>

HotspotsInit ==
  /\ hotspots = <<>>
  /\ runs = <<>>

\* no function is being called on its own
FnInit ==
  /\ fnArgs = <<>>
  /\ fnOut = <<>>

\* no image has been uploaded
BlobsInit == blobs = {}

\* set(ref, value): the record at key is replaced
SetRecord(store, key, rec) ==
  [k \in DOMAIN store \cup {key} |-> IF k = key THEN rec ELSE store[k]]

\* update(ref, fields): the fields are merged into the record at key; a key
\* with no record gets one holding the given fields only.  A record has its
\* number and boolean fields (timestamp, upvotes, flaggedAsSpam, isVerified)
\* only once they are written.
NoRecord ==
  [title |-> Undefined, description |-> Undefined, category |-> Undefined,
   status |-> Undefined, priority |-> Undefined, location |-> Undefined,
   locationData |-> Null, images |-> Undefined,
   moderationStatus |-> Undefined, mlAnalysis |-> Null, duplicateOf |-> Null]

UpdateRecord(store, key, fields) ==
  LET old == IF key \in DOMAIN store THEN store[key] ELSE NoRecord
  IN  SetRecord(store, key,
                [f \in DOMAIN old \cup DOMAIN fields |->
                   IF f \in DOMAIN fields THEN fields[f] ELSE old[f]])

\* logAnalyticsEvent: push() and set() under "analytics"
LogEvent(log, type, issueId) ==
  log (+) SetToBag({[type |-> type, issueId |-> issueId]})

SetCall(c, rec) == calls' = [calls EXCEPT ![c] = rec]

\* the record createIssue writes for a request of apiCreateIssue
NewIssue(req, timestamp) ==
  [title |-> req.title, description |-> req.description,
   category |-> req.category, status |-> "reported", priority |-> "medium",
   location |-> req.location, locationData |-> req.locationData,
   images |-> req.images, timestamp |-> timestamp, upvotes |-> 0,
   moderationStatus |-> "pending", mlAnalysis |-> Null, duplicateOf |-> Null]

CreateResponse(success, issueId, mlAnalysis) ==
  [success |-> success, issueId |-> issueId, mlAnalysis |-> mlAnalysis]

\* apiCreateIssue's catch: the response of a call whose createIssue threw
CreateFailed(call) ==
  [call EXCEPT !.pc = "done", !.response = CreateResponse(FALSE, Null, Null)]

\* the call once analyzeImageWithBackend has returned result to it
AfterAnalysis(call, result) ==
  IF result.categoryConfidence > 800
    THEN [call EXCEPT !.pc = "updateIssue", !.mlAnalysis = result]
    ELSE [call EXCEPT !.pc = "done", !.mlAnalysis = result,
                      !.response = CreateResponse(TRUE, call.issueId, result)]

\* a mutant of AnalysisFailed: without the catch of analyzeImageWithBackend
\* and of apiCreateIssue's inner try, the error reaches apiCreateIssue's catch
AnalysisFailedUncaught(call, step) ==
  CreateFailed([call EXCEPT !.threw = @ \cup {step}])

\* a mutant of AnalysisFailed: the catch returns what processLocally computed
AnalysisFailedKeepsResult(call, step) ==
  AfterAnalysis([call EXCEPT !.threw = @ \cup {step}],
                IF call.result = Null THEN getDefaultMLResult ELSE call.result)

\* analyzeImageWithBackend's catch: step of the analysis threw
AnalysisFailed(call, step) ==
  AfterAnalysis([call EXCEPT !.threw = @ \cup {step}], getDefaultMLResult)

\* the events logAnalyticsEvent has appended once the first n of types are
\* written for issueId
RECURSIVE LogEvents(_, _, _, _)
LogEvents(log, types, n, issueId) ==
  IF n = 0 THEN log
  ELSE LogEvents(LogEvent(log, types[n], issueId), types, n - 1, issueId)

\* apiCreateIssue up to the return of createIssue: await set(newIssueRef,
\* issueData), then await logAnalyticsEvent('issue_created').  The analytics
\* log is append-only and read by no operation, so both writes are one step;
\* done counts the writes made before one threw (2: none threw).  The clock
\* read for the timestamp has or has not moved on since it was last read.
CreateIssue(c, req, done, timestamp) ==
  /\ calls[c] = Idle
  /\ nextKey < MaxIssues
  /\ timestamp \in {now, now + 1}
  /\ now' = timestamp
  /\ nextKey' = nextKey + 1
  /\ LET key == PushKey(nextKey + 1)
         call == [op |-> "create", pc |-> "processLocally", req |-> req,
                  issueId |-> key, created |-> done = 2, threw |-> {},
                  result |-> Null, mlAnalysis |-> Null, response |-> Null]
     IN  /\ issues' = IF done >= 1
                        THEN SetRecord(issues, key, NewIssue(req, timestamp))
                        ELSE issues
         /\ analytics' = IF done = 2
                           THEN LogEvent(analytics, "issue_created", key)
                           ELSE analytics
         /\ SetCall(c, IF done < 2 THEN CreateFailed(call)
                       ELSE IF req.images # <<>> THEN call
                       ELSE [call EXCEPT !.pc = "done",
                                         !.response = CreateResponse(TRUE, key, Null)])
  /\ UNCHANGED <<analyses, upvoted, spamVars, fnVars, fileVars, hotVars>>

\* analyzeImageWithBackend's await processLocally: the store is read by
\* findSimilarIssues (readOk: getIssues did not throw) and the result put
\* together; ok: nothing outside the duplicate check threw
ProcessLocally(c, ok, readOk, rConf, rQual) ==
  /\ calls[c].op = "create"
  /\ calls[c].pc = "processLocally"
  /\ LET req == calls[c].req
         found == IF readOk
                    THEN findSimilarIssues(getIssues(issues), <<>>,
                                           req.description, req.location)
                    ELSE [threw |-> TRUE, results |-> <<>>]
     IN  SetCall(c, IF ok
                      THEN [calls[c] EXCEPT
                              !.pc = "storeMLAnalysis",
                              !.threw = IF readOk THEN @ ELSE @ \cup {"findSimilarIssues"},
                              !.result = processLocally(found, req.images[1],
                                                        req.description, rConf, rQual)]
                      ELSE AnalysisFailed(calls[c], "processLocally"))
  /\ UNCHANGED <<storeVars, upvoted, spamVars, fnVars, fileVars, hotVars>>

\* a mutant of AnalysisEvents: the spam event is logged for every result
AnalysisEventsWithSpam(result) ==
  <<"ml_analysis">>
  \o (IF result.isDuplicate THEN <<"duplicate_detected">> ELSE <<>>)
  \o <<"spam_detected">>

\* the events storeMLAnalysis logs for a result, in order
AnalysisEvents(result) ==
  <<"ml_analysis">>
  \o (IF result.isDuplicate THEN <<"duplicate_detected">> ELSE <<>>)
  \o (IF result.isSpam THEN <<"spam_detected">> ELSE <<>>)

\* analyzeImageWithBackend's await storeMLAnalysis: await set(newAnalysisRef,
\* analysisRecord), await update(ref(db, `issues/${issueId}`), {...}), and an
\* await logAnalyticsEvent per event.  Only the update writes what another
\* operation reads, so the writes are one step; done counts the writes made
\* before one threw.  mlAnalyzedAt, which nothing reads, is left out.
StoreMLAnalysis(c, done) ==
  /\ calls[c].op = "create"
  /\ calls[c].pc = "storeMLAnalysis"
  /\ LET result == calls[c].result
         events == AnalysisEvents(result)
     IN  /\ done \in 0..(2 + Len(events))
         /\ analyses' = IF done >= 1
                          THEN analyses (+) SetToBag({[issueId |-> calls[c].issueId,
                                                       result |-> result]})
                          ELSE analyses
         /\ issues' = IF done >= 2
                        THEN UpdateRecord(issues, calls[c].issueId,
                               [mlAnalysis |-> result,
                                flaggedAsSpam |-> result.isSpam,
                                duplicateOf |-> result.duplicateIssueId])
                        ELSE issues
         /\ analytics' = LogEvents(analytics, events, Max(done - 2, 0),
                                   calls[c].issueId)
         /\ SetCall(c, IF done = 2 + Len(events)
                         THEN AfterAnalysis(calls[c], result)
                         ELSE AnalysisFailed(calls[c], "storeMLAnalysis"))
  /\ UNCHANGED <<nextKey, now, upvoted, spamVars, fnVars, fileVars, hotVars>>

\* apiCreateIssue's await updateIssue(issueId, {priority}); a throw is caught
\* and only logged; updatedAt, which nothing reads, is left out
UpdatePriority(c, ok) ==
  /\ calls[c].op = "create"
  /\ calls[c].pc = "updateIssue"
  /\ IF ok
       THEN issues' = UpdateRecord(issues, calls[c].issueId,
                                   [priority |-> calculatePriority(calls[c].mlAnalysis)])
       ELSE UNCHANGED issues
  /\ SetCall(c, [calls[c] EXCEPT
                   !.pc = "done",
                   !.threw = IF ok THEN @ ELSE @ \cup {"updateIssue"},
                   !.response = CreateResponse(TRUE, calls[c].issueId,
                                               calls[c].mlAnalysis)])
  /\ UNCHANGED <<nextKey, analyses, analytics, now, upvoted, spamVars, fnVars, fileVars, hotVars>>

\* the calls inside analyzeImageWithBackend, from its start to its return
InAnalysis ==
  {c \in DOMAIN calls :
     /\ calls[c].op \in {"create", "analyze"}
     /\ calls[c].pc \in {"processLocally", "storeMLAnalysis"}}

\* the records storeMLAnalysis has stored for temporary ids
TempAnalyses ==
  BagCardinality(analyses)
  - Cardinality({a \in BagToSet(analyses) : a.issueId[1] # "temp"})

AnalyzeResponse(success, analysis) == [success |-> success, analysis |-> analysis]

\* apiAnalyzeContent up to the call of analyzeImageWithBackend: the
\* temporary id is made from the clock, which has or has not moved on since
\* it was last read
AnalyzeContent(c, req, timestamp) ==
  /\ calls[c] = Idle
  /\ req.images # <<>>
  /\ timestamp \in {now, now + 1}
  /\ timestamp <= MaxClock
  /\ TempAnalyses + Cardinality({d \in DOMAIN calls : calls[d].op = "analyze"})
       < MaxAnalyses
  /\ now' = timestamp
  /\ SetCall(c, [op |-> "analyze", pc |-> "processLocally", req |-> req,
                 issueId |-> TempKey(timestamp), threw |-> {},
                 result |-> Null, response |-> Null])
  /\ UNCHANGED <<issues, nextKey, analyses, analytics, upvoted, spamVars,
                 fnVars, fileVars, hotVars>>

\* analyzeImageWithBackend's await processLocally inside apiAnalyzeContent;
\* a throw is caught and the default result returned
AnalyzeProcessLocally(c, ok, readOk, rConf, rQual) ==
  /\ calls[c].op = "analyze"
  /\ calls[c].pc = "processLocally"
  /\ LET req == calls[c].req
         found == IF readOk
                    THEN findSimilarIssues(getIssues(issues), <<>>,
                                           req.description, req.location)
                    ELSE [threw |-> TRUE, results |-> <<>>]
     IN  SetCall(c, IF ok
                      THEN [calls[c] EXCEPT
                              !.pc = "storeMLAnalysis",
                              !.threw = IF ~readOk \/ found.threw
                                          THEN @ \cup {"findSimilarIssues"}
                                          ELSE @,
                              !.result = processLocally(found, req.images[1],
                                                        req.description, rConf, rQual)]
                      ELSE [calls[c] EXCEPT
                              !.pc = "done",
                              !.threw = @ \cup {"processLocally"},
                              !.response = AnalyzeResponse(TRUE, getDefaultMLResult)])
  /\ UNCHANGED <<storeVars, upvoted, spamVars, fnVars, fileVars, hotVars>>

\* analyzeImageWithBackend's await storeMLAnalysis inside apiAnalyzeContent:
\* the record, the update of issues/<temporary id> and the events are
\* written as in StoreMLAnalysis, and apiAnalyzeContent returns the result
AnalyzeStore(c, done) ==
  /\ calls[c].op = "analyze"
  /\ calls[c].pc = "storeMLAnalysis"
  /\ LET result == calls[c].result
         events == AnalysisEvents(result)
     IN  /\ done \in 0..(2 + Len(events))
         /\ analyses' = IF done >= 1
                          THEN analyses (+) SetToBag({[issueId |-> calls[c].issueId,
                                                       result |-> result]})
                          ELSE analyses
         /\ issues' = IF done >= 2
                        THEN UpdateRecord(issues, calls[c].issueId,
                               [mlAnalysis |-> result,
                                flaggedAsSpam |-> result.isSpam,
                                duplicateOf |-> result.duplicateIssueId])
                        ELSE issues
         /\ analytics' = LogEvents(analytics, events, Max(done - 2, 0),
                                   calls[c].issueId)
         /\ SetCall(c, [calls[c] EXCEPT
                          !.pc = "done",
                          !.threw = IF done = 2 + Len(events) THEN @
                                    ELSE @ \cup {"storeMLAnalysis"},
                          !.response = AnalyzeResponse(TRUE,
                                         IF done = 2 + Len(events) THEN result
                                         ELSE getDefaultMLResult)])
  /\ UNCHANGED <<nextKey, now, upvoted, spamVars, fnVars, fileVars, hotVars>>

\* the caller takes the response: the slot is free again
Return(c) ==
  /\ calls[c].op # "idle"
  /\ calls[c].pc = "done"
  /\ SetCall(c, Idle)
  /\ UNCHANGED <<storeVars, upvoted, spamVars, fnVars, fileVars, hotVars>>

\* the values upvoteIssue has returned for an issue, in order of return
Returned(id) == IF id \in DOMAIN upvoted THEN upvoted[id] ELSE <<>>

\* the upvoteIssue calls on id that have read the count and not yet written
UpvotesInFlight(id) ==
  {c \in DOMAIN calls :
     calls[c].op = "upvote" /\ calls[c].pc = "update" /\ calls[c].issueId = id}

\* snapshot.val().upvotes || 0
UpvotesOr0(rec) == IF "upvotes" \in DOMAIN rec THEN rec.upvotes ELSE 0

\* apiUpvoteIssue up to upvoteIssue's await get(issueRef): the count is read;
\* a throw (ok false, or no record: "Issue not found") makes the call return
\* null
UpvoteGet(c, id, ok) ==
  /\ calls[c] = Idle
  /\ Len(Returned(id)) + Cardinality(UpvotesInFlight(id)) < MaxUpvotes
  /\ SetCall(c, IF ok /\ id \in DOMAIN issues
                  THEN [op |-> "upvote", pc |-> "update", issueId |-> id,
                        currentUpvotes |-> UpvotesOr0(issues[id]),
                        response |-> Null]
                  ELSE [op |-> "upvote", pc |-> "done", issueId |-> id,
                        currentUpvotes |-> 0, response |-> Null])
  /\ UNCHANGED <<storeVars, upvoted, spamVars, fnVars, fileVars, hotVars>>

\* upvoteIssue's await update(issueRef, {upvotes: newUpvotes}) and the return
\* of newUpvotes; a throw makes apiUpvoteIssue return null
UpvoteUpdate(c, ok) ==
  /\ calls[c].op = "upvote"
  /\ calls[c].pc = "update"
  /\ LET id == calls[c].issueId
         newUpvotes == calls[c].currentUpvotes + 1
     IN  IF ok
           THEN /\ issues' = UpdateRecord(issues, id, [upvotes |-> newUpvotes])
                /\ upvoted' = [k \in DOMAIN upvoted \cup {id} |->
                                 IF k = id THEN Append(Returned(id), newUpvotes)
                                 ELSE upvoted[k]]
                /\ SetCall(c, [calls[c] EXCEPT !.pc = "done",
                                               !.response = [upvotes |-> newUpvotes]])
           ELSE /\ UNCHANGED <<issues, upvoted>>
                /\ SetCall(c, [calls[c] EXCEPT !.pc = "done"])
  /\ UNCHANGED <<nextKey, analyses, analytics, now, spamVars, fnVars, fileVars, hotVars>>

\* the updates of apiUpdateIssueStatus, apiUpdateIssuePriority,
\* apiVerifyMLResult and apiModerateIssue
IssueUpdates ==
  {[status |-> "resolved"], [priority |-> "high"], [isVerified |-> TRUE],
   [moderationStatus |-> "approved"]}

Resolves(updates) == "status" \in DOMAIN updates /\ updates.status = "resolved"

ResolvedEvent(id) == [type |-> "issue_resolved", issueId |-> id]

\* apiUpdateIssueStatus and the like: updateIssue's await update(issueRef,
\* {...updates, updatedAt}) and, for status 'resolved', await
\* logAnalyticsEvent('issue_resolved'); done counts the writes made before one
\* threw.  The response is true when none threw.  updatedAt, which nothing
\* reads, is left out.
ApiUpdateIssue(c, id, updates, done) ==
  /\ calls[c] = Idle
  /\ id \in DOMAIN issues
  /\ done \in 0..(IF Resolves(updates) THEN 2 ELSE 1)
  /\ done = 2 => CopiesIn(ResolvedEvent(id), analytics) < MaxResolved
  /\ issues' = IF done >= 1 THEN UpdateRecord(issues, id, updates) ELSE issues
  /\ analytics' = IF done = 2 THEN LogEvent(analytics, "issue_resolved", id)
                  ELSE analytics
  /\ SetCall(c, [op |-> "update", pc |-> "done", issueId |-> id,
                 response |-> [success |->
                                 done = (IF Resolves(updates) THEN 2 ELSE 1)]])
  /\ UNCHANGED <<nextKey, analyses, now, upvoted, spamVars, fnVars, fileVars, hotVars>>

(***************************************************************************)
(* Images and the deletion of an issue                                     *)
(***************************************************************************)
\* the blobs listAll finds under issues/<issueId>/
BlobsOf(id) == {b \in blobs : b.issueId = id}

\* uploadImage: uploadBytes under issues/<issueId>/<timestamp>_<index>; a
\* throw is caught and nothing is stored
UploadImage(id, index, ok) ==
  /\ [issueId |-> id, name |-> index] \notin blobs
  /\ ok
  /\ blobs' = blobs \cup {[issueId |-> id, name |-> index]}
  /\ UNCHANGED <<storeVars, callVars, spamVars, fnVars, hotVars>>

\* apiDeleteIssue up to deleteIssueImages' await listAll(folderRef): the
\* items found are kept; when storage is not initialised or listAll throws
\* (ok false), deleteIssueImages returns 0 and apiDeleteIssue goes on
DeleteList(c, id, ok) ==
  /\ calls[c] = Idle
  /\ LET items == IF ok THEN {b.name : b \in BlobsOf(id)} ELSE {}
     IN  SetCall(c, [op |-> "delete",
                     pc |-> IF items = {} THEN "remove" ELSE "objects",
                     issueId |-> id, items |-> items, response |-> Null])
  /\ UNCHANGED <<storeVars, upvoted, spamVars, fnVars, fileVars, hotVars>>

\* deleteIssueImages' await deleteObject(item) for the next item; a throw
\* (ok false, or the object is gone) ends the loop, is caught and logged
DeleteObject(c, ok) ==
  /\ calls[c].op = "delete"
  /\ calls[c].pc = "objects"
  /\ LET id == calls[c].issueId
         item == CHOOSE n \in calls[c].items : \A m \in calls[c].items : n <= m
         blob == [issueId |-> id, name |-> item]
         rest == calls[c].items \ {item}
     IN  IF ok /\ blob \in blobs
           THEN /\ blobs' = blobs \ {blob}
                /\ SetCall(c, [calls[c] EXCEPT
                                 !.items = rest,
                                 !.pc = IF rest = {} THEN "remove" ELSE "objects"])
           ELSE /\ blobs' = blobs
                /\ SetCall(c, [calls[c] EXCEPT !.items = {}, !.pc = "remove"])
  /\ UNCHANGED <<storeVars, upvoted, spamVars, fnVars, hotVars>>

\* deleteIssue's await remove(issueRef) and apiDeleteIssue's return: true,
\* or false when remove throws
DeleteIssue(c, ok) ==
  /\ calls[c].op = "delete"
  /\ calls[c].pc = "remove"
  /\ issues' = IF ok
                 THEN [k \in DOMAIN issues \ {calls[c].issueId} |-> issues[k]]
                 ELSE issues
  /\ SetCall(c, [calls[c] EXCEPT !.pc = "done", !.response = ok])
  /\ UNCHANGED <<nextKey, analyses, analytics, now, upvoted, spamVars, fnVars,
                 fileVars, hotVars>>

(***************************************************************************)
(* Hotspot predictions                                                     *)
(*                                                                         *)
(* Coordinates are kept in thousandths of a degree, the clock and the      *)
(* timestamps in days.  A call of Math.random() * 0.1 is a choice among    *)
(* RandomMilli.                                                            *)
(***************************************************************************)
MIN_CLUSTER_COUNT == 2       \* cluster.count >= 2
PROXIMITY == 10              \* 0.01 degrees
RECENT_DAYS == 7
SYNTH_LAT == 18500           \* 18.5
SYNTH_LNG == 73800           \* 73.8
RandomMilli == {0, 10}

Unknown == <<"U", "n", "k", "n", "o", "w", "n">>

\* String.prototype.split(',')[0]
RECURSIVE BeforeComma(_)
BeforeComma(s) ==
  IF s = <<>> \/ Head(s) = "," THEN <<>>
  ELSE <<Head(s)>> \o BeforeComma(Tail(s))

\* location.charAt(0).toUpperCase() + location.slice(1)
Capitalize(s) ==
  IF s = <<>> THEN <<>>
  ELSE LET k == {i \in DOMAIN LowerChars : LowerChars[i] = Head(s)}
       IN  <<IF k = {} THEN Head(s) ELSE UpperChars[CHOOSE i \in k : TRUE]>> \o Tail(s)

\* issue.location || issue.locationData?.address || 'Unknown'
LocationOf(rec) ==
  IF rec.location # Undefined /\ rec.location # <<>> THEN rec.location
  ELSE IF /\ rec.locationData # Null
          /\ "address" \in DOMAIN rec.locationData
          /\ rec.locationData.address # <<>>
         THEN rec.locationData.address
  ELSE Unknown

\* location.toLowerCase().split(',')[0].trim()
NormalizedLocation(rec) == trim(BeforeComma(toLowerCase(LocationOf(rec))))

\* issue.locationData?.lat || 18.5 + Math.random() * 0.1, and the same for lng
CoordinateOf(rec, axis, synth, r) ==
  IF /\ rec.locationData # Null
     /\ axis \in DOMAIN rec.locationData
     /\ rec.locationData[axis] # 0
    THEN rec.locationData[axis]
    ELSE synth + r

\* daysSinceIssue <= 7; a record without timestamp gives NaN, which is not
DaysSinceAtMost7(rec, today) ==
  "timestamp" \in DOMAIN rec /\ today - rec.timestamp <= RECENT_DAYS

\* clusterIssuesByLocation: the clusters in the order their keys are added;
\* draws[k] holds the random numbers the k-th new cluster may use
RECURSIVE ClustersFrom(_, _, _, _)
ClustersFrom(listed, clusters, today, draws) ==
  IF listed = <<>> THEN clusters
  ELSE LET rec == Head(listed).rec
           key == NormalizedLocation(rec)
           draw == draws[Len(clusters) + 1]
           fresh == [location |-> key, count |-> 0, categories |-> <<>>,
                     avgLat |-> CoordinateOf(rec, "lat", SYNTH_LAT, draw.lat),
                     avgLng |-> CoordinateOf(rec, "lng", SYNTH_LNG, draw.lng),
                     recentIssues |-> 0]
           all == IF \E i \in DOMAIN clusters : clusters[i].location = key
                    THEN clusters ELSE Append(clusters, fresh)
           at == CHOOSE i \in DOMAIN all : all[i].location = key
       IN  ClustersFrom(Tail(listed),
                        [all EXCEPT
                           ![at].count = @ + 1,
                           ![at].categories = Append(@, rec.category),
                           ![at].recentIssues =
                              IF DaysSinceAtMost7(rec, today) THEN @ + 1 ELSE @],
                        today, draws)

clusterIssuesByLocation(listed, today, draws) ==
  ClustersFrom(listed, <<>>, today, draws)

\* Object.entries(categoryCounts).sort((a, b) => b[1] - a[1])[0][0]: of the
\* categories counted most often, the one that came first
MostCommonCategory(categories) ==
  LET Count(cat) == Cardinality({i \in DOMAIN categories : categories[i] = cat})
      first == CHOOSE i \in DOMAIN categories :
                 /\ \A j \in DOMAIN categories :
                      Count(categories[j]) <= Count(categories[i])
                 /\ \A j \in 1..(i - 1) :
                      Count(categories[j]) < Count(categories[i])
  IN  categories[first]

\* a mutant of RiskLevel: the recent issues are not looked at
RiskLevelByCount(count, recentIssues) ==
  IF count >= 5 THEN "critical"
  ELSE IF count >= 3 THEN "high"
  ELSE IF count >= 2 THEN "medium"
  ELSE "low"

\* riskLevel, with recentRatio = recentIssues / count
RiskLevel(count, recentIssues) ==
  IF count >= 5 /\ 2 * recentIssues > count THEN "critical"
  ELSE IF count >= 3 \/ 10 * recentIssues > 3 * count THEN "high"
  ELSE IF count >= 2 THEN "medium"
  ELSE "low"

PredictedTimeframe(riskLevel) ==
  IF riskLevel = "critical" THEN "Next few days"
  ELSE IF riskLevel = "high" THEN "Next 1-2 weeks"
  ELSE IF riskLevel = "medium" THEN "Next month"
  ELSE "Next 2-3 months"

\* a mutant of Probability: without Math.min
ProbabilityUncapped(count, recentIssues) ==
  [num |-> 5 * count + count * count + 2 * recentIssues, den |-> 10 * count]

\* Math.min(0.5 + cluster.count * 0.1 + recentRatio * 0.2, 0.95), a fraction
Probability(count, recentIssues) ==
  LET raw == [num |-> 5 * count + count * count + 2 * recentIssues,
              den |-> 10 * count]
      cap == [num |-> 19, den |-> 20]
  IN  IF FracGreater(raw, cap) THEN cap ELSE raw

\* generateHotspotFromCluster; reasoning holds the two numbers of the
\* sentence; the id, which no operation reads, is left out
generateHotspotFromCluster(location, cluster) ==
  LET riskLevel == RiskLevel(cluster.count, cluster.recentIssues)
  IN  [location |-> Capitalize(location),
       lat |-> cluster.avgLat,
       lng |-> cluster.avgLng,
       predictedIssueType |-> MostCommonCategory(cluster.categories),
       riskLevel |-> riskLevel,
       probability |-> Probability(cluster.count, cluster.recentIssues),
       reasoning |-> [count |-> cluster.count,
                      recentIssues |-> cluster.recentIssues],
       predictedTimeframe |-> PredictedTimeframe(riskLevel)]

RiskOrder(riskLevel) ==
  IF riskLevel = "critical" THEN 4
  ELSE IF riskLevel = "high" THEN 3
  ELSE IF riskLevel = "medium" THEN 2
  ELSE 1

\* hotspots.sort((a, b) => riskOrder[b.riskLevel] - riskOrder[a.riskLevel]);
\* the sort is stable
RECURSIVE SortRiskiestFirst(_)
SortRiskiestFirst(q) ==
  IF q = <<>> THEN <<>>
  ELSE LET i == CHOOSE j \in DOMAIN q :
                  /\ \A k \in DOMAIN q :
                       RiskOrder(q[k].rec.riskLevel) <= RiskOrder(q[j].rec.riskLevel)
                  /\ \A k \in 1..(j - 1) :
                       RiskOrder(q[k].rec.riskLevel) < RiskOrder(q[j].rec.riskLevel)
       IN  <<q[i]>> \o SortRiskiestFirst(SubSeq(q, 1, i - 1)
                                         \o SubSeq(q, i + 1, Len(q)))

\* getActiveHotspots: the active records with their keys, riskiest first
getActiveHotspots(store) ==
  LET keys == InKeyOrder(DOMAIN store)
      all == [i \in DOMAIN keys |-> [key |-> keys[i], rec |-> store[keys[i]]]]
  IN  SortRiskiestFirst(SelectSeq(all, LAMBDA h : h.rec.isActive))

Distance(a, b) == IF a >= b THEN a - b ELSE b - a

\* existingHotspots.find(h => Math.abs(h.lat - prediction.lat) < 0.01 &&
\*                            Math.abs(h.lng - prediction.lng) < 0.01)
ExistingSimilar(existingHotspots, prediction) ==
  \E i \in DOMAIN existingHotspots :
    /\ Distance(existingHotspots[i].rec.lat, prediction.lat) < PROXIMITY
    /\ Distance(existingHotspots[i].rec.lng, prediction.lng) < PROXIMITY

\* a mutant of ClusterEmitted: a single issue is enough
ClusterEmittedAlways(cluster) == cluster.count >= 1

\* cluster.count >= 2
ClusterEmitted(cluster) == cluster.count >= MIN_CLUSTER_COUNT

\* the predictions generateHotspotPredictions goes on to store: one for each
\* cluster of at least 2 issues with no similar hotspot in the snapshot
NewPredictions(clusters, existingHotspots) ==
  LET all == [i \in DOMAIN clusters |->
                generateHotspotFromCluster(clusters[i].location, clusters[i])]
      kept == {i \in DOMAIN clusters :
                 /\ ClusterEmitted(clusters[i])
                 /\ ~ExistingSimilar(existingHotspots, all[i])}
      RECURSIVE Pick(_)
      Pick(i) == IF i > Len(clusters) THEN <<>>
                 ELSE (IF i \in kept THEN <<all[i]>> ELSE <<>>) \o Pick(i + 1)
  IN  Pick(1)

HotspotCalls == {c \in DOMAIN calls : calls[c].op = "hotspots"}

RunsInFlight == {c \in HotspotCalls : calls[c].pc # "done"}

\* generateHotspotPredictions returns: the predictions made, or [] from its
\* catch
HotspotsReturned(call, threw) ==
  [call EXCEPT !.pc = "done", !.threw = threw, !.listed = <<>>,
               !.response = [predictions |-> IF threw THEN <<>> ELSE call.predictions]]

\* generateHotspotPredictions up to its await getIssues().  rerun: the call
\* starts when the last call to return did not throw and no call is running
HotspotGetIssues(c, ok) ==
  /\ calls[c] = Idle
  /\ Len(runs) + Cardinality(RunsInFlight) < MaxRuns
  /\ LET call == [op |-> "hotspots", pc |-> "getActiveHotspots",
                  listed |-> IF ok THEN getIssues(issues) ELSE <<>>,
                  rerun |-> /\ runs # <<>>
                            /\ ~runs[Len(runs)]
                            /\ RunsInFlight = {},
                  threw |-> FALSE, pending |-> <<>>, predictions |-> <<>>,
                  response |-> Null]
     IN  IF ok
           THEN SetCall(c, call) /\ UNCHANGED runs
           ELSE SetCall(c, HotspotsReturned(call, TRUE)) /\ runs' = Append(runs, TRUE)
  /\ UNCHANGED <<storeVars, upvoted, spamVars, fnVars, fileVars, hotspots>>

\* the keys of the clusters clusterIssuesByLocation forms
LocationKeys(listed) == {NormalizedLocation(listed[i].rec) : i \in DOMAIN listed}

\* the random numbers clusterIssuesByLocation may use for n clusters
Draws(n) == [1..n -> [lat : RandomMilli, lng : RandomMilli]]

\* generateHotspotPredictions from its await getActiveHotspots() to the first
\* await storeHotspotPrediction: the clusters are formed and the predictions
\* to store chosen against the hotspots just read
HotspotGetActive(c, ok) ==
  /\ calls[c].op = "hotspots"
  /\ calls[c].pc = "getActiveHotspots"
  /\ \E draws \in Draws(Cardinality(LocationKeys(calls[c].listed))) :
       LET clusters == clusterIssuesByLocation(calls[c].listed, now, draws)
           pending == NewPredictions(clusters, getActiveHotspots(hotspots))
           returns == ~ok \/ pending = <<>>
       IN  /\ SetCall(c, IF returns THEN HotspotsReturned(calls[c], ~ok)
                         ELSE [calls[c] EXCEPT !.pc = "storeHotspotPrediction",
                                               !.listed = <<>>,
                                               !.pending = pending])
           /\ runs' = IF returns THEN Append(runs, ~ok) ELSE runs
  /\ UNCHANGED <<storeVars, upvoted, spamVars, fnVars, fileVars, hotspots>>

\* the record storeHotspotPrediction writes; updatedAt, which nothing reads,
\* is left out
HotspotRecord(prediction, createdAt) ==
  [location |-> prediction.location, lat |-> prediction.lat,
   lng |-> prediction.lng, predictedIssueType |-> prediction.predictedIssueType,
   riskLevel |-> prediction.riskLevel, probability |-> prediction.probability,
   reasoning |-> prediction.reasoning,
   predictedTimeframe |-> prediction.predictedTimeframe,
   createdAt |-> createdAt, isActive |-> TRUE, actualIssuesCount |-> 0]

\* predictions.push(prediction); await storeHotspotPrediction(prediction):
\* await set(newHotspotRef, record), then await
\* logAnalyticsEvent('hotspot_predicted'); done counts the writes made before
\* one threw.  After the last prediction the call returns.
HotspotStore(c, done) ==
  /\ calls[c].op = "hotspots"
  /\ calls[c].pc = "storeHotspotPrediction"
  /\ LET prediction == Head(calls[c].pending)
         key == PushKey(Cardinality(DOMAIN hotspots) + 1)
         call == [calls[c] EXCEPT !.pending = Tail(@),
                                  !.predictions = Append(@, prediction)]
         returns == done < 2 \/ call.pending = <<>>
     IN  /\ hotspots' = IF done >= 1
                          THEN SetRecord(hotspots, key, HotspotRecord(prediction, now))
                          ELSE hotspots
         /\ analytics' = IF done = 2
                           THEN LogEvent(analytics, "hotspot_predicted", key)
                           ELSE analytics
         /\ SetCall(c, IF returns THEN HotspotsReturned(call, done < 2) ELSE call)
         /\ runs' = IF returns THEN Append(runs, done < 2) ELSE runs
  /\ UNCHANGED <<issues, nextKey, analyses, now, upvoted, spamVars, fnVars, fileVars>>

EXPIRY_DAYS == 30

\* record.isActive and daysSinceCreation > 30, for the now the call read
Expired(rec, today) == rec.isActive /\ today - rec.createdAt > EXPIRY_DAYS

\* the keys of the snapshot, in the order Object.entries lists them, whose
\* records deactivateExpiredHotspots goes on to update
ExpiredKeys(snapshot, today) ==
  SelectSeq(InKeyOrder(DOMAIN snapshot), LAMBDA k : Expired(snapshot[k], today))

\* deactivateExpiredHotspots has returned deactivatedCount, or thrown
DeactivateReturned(call, threw) ==
  [call EXCEPT !.pc = "done", !.threw = threw,
               !.response = IF threw THEN Null
                            ELSE [deactivatedCount |-> call.deactivatedCount]]

\* deactivateExpiredHotspots up to its first update: await get(hotspotsRef)
\* (ok false: it throws), now = new Date(), and the loop up to the first
\* record that is active and older than 30 days; with no such record the
\* call returns 0.  switched counts the records the call found active when
\* it wrote them.
DeactivateGet(c, ok) ==
  /\ calls[c] = Idle
  /\ LET call == [op |-> "deactivate", pc |-> "update", today |-> now,
                  pending |-> IF ok THEN ExpiredKeys(hotspots, now) ELSE <<>>,
                  deactivatedCount |-> 0, switched |-> 0, threw |-> FALSE,
                  response |-> Null]
     IN  SetCall(c, IF ~ok THEN DeactivateReturned(call, TRUE)
                    ELSE IF call.pending = <<>> THEN DeactivateReturned(call, FALSE)
                    ELSE call)
  /\ UNCHANGED <<storeVars, upvoted, spamVars, fnVars, fileVars, hotVars>>

\* await update(ref(db, `hotspots/${id}`), {isActive: false, updatedAt}) and
\* deactivatedCount++, then the loop up to the next such record or the
\* return; a throw of update leaves the call
DeactivateUpdate(c, ok) ==
  /\ calls[c].op = "deactivate"
  /\ calls[c].pc = "update"
  /\ LET id == Head(calls[c].pending)
         call == [calls[c] EXCEPT
                    !.pending = Tail(@),
                    !.deactivatedCount = @ + 1,
                    !.switched = IF hotspots[id].isActive THEN @ + 1 ELSE @]
     IN  IF ok
           THEN /\ hotspots' = UpdateRecord(hotspots, id, [isActive |-> FALSE])
                /\ SetCall(c, IF call.pending = <<>>
                                THEN DeactivateReturned(call, FALSE)
                                ELSE call)
           ELSE /\ hotspots' = hotspots
                /\ SetCall(c, DeactivateReturned(calls[c], TRUE))
  /\ UNCHANGED <<storeVars, upvoted, spamVars, fnVars, fileVars, runs>>

\* a day passes
Tick(last) ==
  /\ now < last
  /\ now' = now + 1
  /\ UNCHANGED <<issues, nextKey, analyses, analytics, callVars, spamVars,
                 fnVars, fileVars, hotVars>>

(***************************************************************************)
(* The spam scorer on its own: a text is put together from fragments and   *)
(* then scored.                                                            *)
(***************************************************************************)

SpamFragments ==
  {<<"b", "u", "y", " ", "n", "o", "w", " ">>,
   <<"f", "r", "e", "e", " ", "m", "o", "n", "e", "y", " ">>,
   <<"h", "t", "t", "p", ":", "/", "/", "x", ".", "c", "o", "m", " ">>,
   <<"w", "w", "w", ".">>,
   <<"l", "o", "t", "t", "e", "r", "y", " ", "w", "i", "n", "n", "e", "r", " ", "p", "r", "i", "z", "e", " ">>,
   <<"S", "A", "L", "E">>,
   <<"A", "A", "A", "A", "A">>,
   <<"!", "!", "!">>,
   <<"p", "o", "t", "h", "o", "l", "e", " ", "o", "n", " ", "r", "o", "a", "d", " ">>}

RECURSIVE Concat(_)
Concat(parts) ==
  IF parts = <<>> THEN <<>> ELSE Head(parts) \o Concat(Tail(parts))

SpamAppend(f) ==
  /\ spamOut = Null
  /\ Len(spamParts) < MaxFragments
  /\ spamParts' = Append(spamParts, f)
  /\ UNCHANGED <<spamOut, storeVars, callVars, hotVars, fnVars, fileVars>>

SpamScore ==
  /\ spamOut = Null
  /\ spamOut' = detectSpam(Concat(spamParts))
  /\ UNCHANGED <<spamParts, storeVars, callVars, hotVars, fnVars, fileVars>>

SpamInit ==
  /\ spamParts = <<>>
  /\ spamOut = Null
  /\ FnInit
  /\ BlobsInit
  /\ StoreInit
  /\ CallsInit
  /\ HotspotsInit

SpamNext ==
  \/ \E f \in SpamFragments : SpamAppend(f)
  \/ SpamScore

SpecSpam == SpamInit /\ [][SpamNext]_vars

\* C10: for every text, detectSpam's score lies in [0,1] and isSpam is true
\* exactly when the returned score is at least SPAM_THRESHOLD.
SpamScoreInRangeAndThreshold ==
  spamOut # Null =>
    /\ spamOut.score \in 0..SCORE_ONE
    /\ spamOut.isSpam <=> (spamOut.score >= SPAM_THRESHOLD)

\* a text whose unclamped total exceeds 1 has been scored
SpamOverOneScored ==
  /\ spamOut # Null
  /\ SpamRawScore(Concat(spamParts)) > SCORE_ONE

\* the weight the code adds with a reason of each kind
ReasonWeight(r) ==
  IF r.reason = "Contains URL pattern" THEN URL_WEIGHT
  ELSE IF r.reason = "Contains promotional content" THEN PROMOTIONAL_WEIGHT
  ELSE IF r.reason = "Contains suspicious pattern" THEN INAPPROPRIATE_WEIGHT
  ELSE FLAG_WEIGHT

RECURSIVE SumOfWeights(_)
SumOfWeights(reasons) ==
  IF reasons = <<>> THEN 0
  ELSE ReasonWeight(Head(reasons)) + SumOfWeights(Tail(reasons))

\* the conditions a text triggers, each as the reason entry it must give
TriggeredConditions(text) ==
  {[reason |-> "Contains URL pattern", pattern |-> p] :
     p \in {q \in SeqToSet(spamPatterns.urls) : includes(toLowerCase(text), q)}}
  \cup {[reason |-> "Contains promotional content", pattern |-> p] :
     p \in {q \in SeqToSet(spamPatterns.promotional) : includes(toLowerCase(text), q)}}
  \cup {[reason |-> "Contains suspicious pattern", pattern |-> p] :
     p \in {q \in SeqToSet(spamPatterns.inappropriate) : includes(toLowerCase(text), q)}}
  \cup {r \in {[reason |-> "Excessive capital letters", pattern |-> <<>>]} :
          2 * CountUpper(text) > Len(text) /\ Len(text) > 10}
  \cup {r \in {[reason |-> "Description too short", pattern |-> <<>>]} :
          Len(trim(text)) < 10}
  \cup {r \in {[reason |-> "Contains repeated characters", pattern |-> <<>>]} :
          \E i \in DOMAIN text : \A k \in 0..4 :
             i + k \in DOMAIN text /\ text[i + k] = text[i]}
  \cup {r \in {[reason |-> "Excessive special characters", pattern |-> <<>>]} :
          5 * CountSpecial(text) > Len(text)}

\* the text matches 'buy now', 'free money', 'http://' and '.com'
MatchesFourPatterns(text) ==
  /\ includes(toLowerCase(text), <<"b", "u", "y", " ", "n", "o", "w">>)
  /\ includes(toLowerCase(text), <<"f", "r", "e", "e", " ", "m", "o", "n", "e", "y">>)
  /\ includes(toLowerCase(text), <<"h", "t", "t", "p", ":", "/", "/">>)
  /\ includes(toLowerCase(text), <<".", "c", "o", "m">>)

\* C11: detectSpam's reasons hold exactly one entry per triggered condition,
\* its score is the sum of the entries' weights clamped to 1, and a text
\* matching 'buy now', 'free money', 'http://' and '.com' has score >= 0.4,
\* isSpam = true and a non-empty reasons list.
SpamScoreIsSumOfWeights ==
  spamOut # Null =>
    LET text == Concat(spamParts)
    IN  /\ SeqToSet(spamOut.reasons) = TriggeredConditions(text)
        /\ Len(spamOut.reasons) = Cardinality(TriggeredConditions(text))
        /\ spamOut.score = Min(SumOfWeights(spamOut.reasons), SCORE_ONE)
        /\ MatchesFourPatterns(text) =>
             /\ spamOut.score >= SPAM_THRESHOLD
             /\ spamOut.isSpam
             /\ spamOut.reasons # <<>>

\* a text matching the four patterns has been scored
FourPatternsScored ==
  spamOut # Null /\ MatchesFourPatterns(Concat(spamParts))

(***************************************************************************)
(* The API over the store                                                  *)
(***************************************************************************)
ReportTexts ==
  {[title |-> <<>>,
    description |-> <<"b", "r", "o", "k", "e", "n", " ", "r", "o", "a", "d", " ", "p", "o", "t", "h", "o", "l", "e">>,
    category |-> "roads"],
   [title |-> <<"B", "i", "g", " ", "o", "f", "f", "e", "r", " ", "f", "o", "r", " ", "a", "l", "l", " ", "p", "e", "o", "p", "l", "e", " ", "h", "e", "r", "e", " ", "t", "o", "d", "a", "y">>,
    description |-> <<"b", "u", "y", " ", "n", "o", "w", " ", "f", "r", "e", "e", " ", "m", "o", "n", "e", "y">>,
    category |-> "other"]}

\* a request of apiCreateIssue
Request(text, images) ==
  [title |-> text.title, description |-> text.description,
   category |-> text.category, location |-> <<"M", "G", " ", "R", "o", "a", "d">>,
   locationData |-> Null, images |-> images]

\* the requests made: each text with an image, one also without
Requests ==
  {Request(t, <<<<"a", ".", "j", "p", "g">>>>) : t \in ReportTexts}
  \cup {Request(t, <<>>) : t \in {x \in ReportTexts : x.title = <<>>}}

Init ==
  /\ StoreInit
  /\ CallsInit
  /\ HotspotsInit
  /\ spamParts = <<>>
  /\ spamOut = Null
  /\ FnInit
  /\ BlobsInit

Next ==
  \/ \E c \in DOMAIN calls, req \in Requests, done \in 0..2,
        timestamp \in {now, now + 1} :
       CreateIssue(c, req, done, timestamp)
  \/ \E c \in DOMAIN calls, ok \in BOOLEAN, readOk \in BOOLEAN,
        rConf \in RandomTenths, rQual \in RandomTenths :
       ProcessLocally(c, ok, readOk, rConf, rQual)
  \/ \E c \in DOMAIN calls, done \in 0..4 : StoreMLAnalysis(c, done)
  \/ \E c \in DOMAIN calls, ok \in BOOLEAN : UpdatePriority(c, ok)
  \/ \E c \in DOMAIN calls : Return(c)

Spec == Init /\ [][Next]_vars

CreateCalls == {c \in DOMAIN calls : calls[c].op = "create"}

\* C1: no issue's duplicateOf is that issue's own id.
NoSelfDuplicate ==
  \A id \in DOMAIN issues : issues[id].duplicateOf # id

\* C6: once createIssue has succeeded inside apiCreateIssue, the record stays
\* in the store and the call returns success with the new issue's id, whatever
\* step fails afterwards.
AnalysisFailureNeverBlocksCreation ==
  \A c \in CreateCalls :
    calls[c].created =>
      /\ calls[c].issueId \in DOMAIN issues
      /\ issues[calls[c].issueId].title = calls[c].req.title
      /\ calls[c].pc = "done" =>
           /\ calls[c].response.success
           /\ calls[c].response.issueId = calls[c].issueId

\* a call has returned success although storeMLAnalysis threw
CreatedDespiteStoreFailure ==
  \E c \in CreateCalls :
    /\ calls[c].pc = "done"
    /\ calls[c].response.success
    /\ "storeMLAnalysis" \in calls[c].threw

\* the analysis of call c went to analyzeImageWithBackend's catch
AnalysisThrew(c) ==
  calls[c].threw \cap {"processLocally", "storeMLAnalysis"} # {}

\* C7 as stated: when a step of analyzeImageWithBackend fails, the result is
\* category "other" with every score zero, not spam, not a duplicate.
FailedAnalysisGivesZeroScores ==
  \A c \in CreateCalls :
    (/\ calls[c].threw \cap {"processLocally", "findSimilarIssues",
                             "storeMLAnalysis"} # {}
     /\ calls[c].mlAnalysis # Null) =>
      /\ calls[c].mlAnalysis.predictedCategory = "other"
      /\ calls[c].mlAnalysis.categoryConfidence = 0
      /\ calls[c].mlAnalysis.spamScore = 0
      /\ calls[c].mlAnalysis.imageQualityScore = 0
      /\ ~calls[c].mlAnalysis.isSpam
      /\ ~calls[c].mlAnalysis.isDuplicate

\* C7, amended: when processLocally or storeMLAnalysis throws, the analysis
\* returns (the call goes on and ends in success) the default result:
\* category "other", spam score 0, not spam, not a duplicate and no duplicate
\* id, with category confidence 0.3 and image quality "fair" at score 0.5.
\* When only findSimilarIssues throws, the computed result is returned, with
\* isDuplicate false.
FailedAnalysisGivesDefaultResult ==
  \A c \in CreateCalls :
    /\ (/\ "findSimilarIssues" \in calls[c].threw
        /\ ~AnalysisThrew(c)
        /\ calls[c].mlAnalysis # Null) =>
          /\ calls[c].mlAnalysis = calls[c].result
          /\ ~calls[c].mlAnalysis.isDuplicate
          /\ calls[c].mlAnalysis.duplicateIssueId = Null
    /\ AnalysisThrew(c) =>
      /\ calls[c].pc = "done"
      /\ calls[c].response.success
      /\ calls[c].response.mlAnalysis = calls[c].mlAnalysis
      /\ calls[c].mlAnalysis.predictedCategory = "other"
      /\ calls[c].mlAnalysis.categoryConfidence = 300
      /\ calls[c].mlAnalysis.spamScore = 0
      /\ calls[c].mlAnalysis.imageQuality = "fair"
      /\ calls[c].mlAnalysis.imageQualityScore = 500
      /\ ~calls[c].mlAnalysis.isSpam
      /\ ~calls[c].mlAnalysis.isDuplicate
      /\ calls[c].mlAnalysis.duplicateIssueId = Null

\* storeMLAnalysis threw after processLocally had computed another category
DefaultAfterComputedResult ==
  \E c \in CreateCalls :
    /\ "storeMLAnalysis" \in calls[c].threw
    /\ calls[c].result # Null
    /\ calls[c].result.predictedCategory # "other"
    /\ calls[c].mlAnalysis # Null

\* storeMLAnalysis completes without a throw in this step of call c
StoreCompletes(c) ==
  /\ calls[c].op = "create"
  /\ calls[c].pc = "storeMLAnalysis"
  /\ calls'[c].op = "create"
  /\ calls'[c].pc \in {"updateIssue", "done"}
  /\ "storeMLAnalysis" \notin calls'[c].threw

\* the events of the given types for an issue
EventsFor(types, issueId) == SetToBag({[type |-> t, issueId |-> issueId] : t \in types})

FailedCreationWritesNothing ==
  [][\A c \in DOMAIN calls :
       (/\ calls[c] = Idle
        /\ calls'[c].op = "create"
        /\ calls'[c].response # Null
        /\ ~calls'[c].response.success)
       => issues' = issues]_vars

(***************************************************************************)
(* Upvotes and updates of an issue beside its creation and analysis        *)
(***************************************************************************)
IssueKeys == {PushKey(n) : n \in 1..MaxIssues}

\* the report created here: a text the classifier is confident about, so
\* that the priority update runs too
VoteRequests ==
  {Request(t, <<<<"a", ".", "j", "p", "g">>>>) : t \in {x \in ReportTexts : x.title = <<>>}}

NextVotes ==
  \/ \E c \in DOMAIN calls, req \in VoteRequests, timestamp \in {now, now + 1} :
       CreateIssue(c, req, 2, timestamp)
  \/ \E c \in DOMAIN calls, rConf \in RandomTenths, rQual \in RandomTenths :
       ProcessLocally(c, TRUE, TRUE, rConf, rQual)
  \/ \E c \in DOMAIN calls, done \in 0..4 : StoreMLAnalysis(c, done)
  \/ \E c \in DOMAIN calls : UpdatePriority(c, TRUE)
  \/ \E c \in DOMAIN calls, id \in IssueKeys, ok \in BOOLEAN : UpvoteGet(c, id, ok)
  \/ \E c \in DOMAIN calls, ok \in BOOLEAN : UpvoteUpdate(c, ok)
  \/ \E c \in DOMAIN calls, id \in IssueKeys, updates \in IssueUpdates,
        done \in 0..2 :
       ApiUpdateIssue(c, id, updates, done)
  \/ \E c \in DOMAIN calls : Return(c)

SpecVotes == Init /\ [][NextVotes]_vars

\* C2: upvoteIssue is an atomic increment: once the upvoteIssue calls on an
\* issue have returned, the stored count is higher than at creation (0) by the
\* number of calls that returned a value, and the values returned are
\* pairwise distinct.
UpvotesAreAtomicIncrements ==
  \A id \in DOMAIN issues :
    UpvotesInFlight(id) = {} =>
      /\ UpvotesOr0(issues[id]) = Len(Returned(id))
      /\ \A i, j \in DOMAIN Returned(id) :
           i # j => Returned(id)[i] # Returned(id)[j]

\* C3: no step lowers the upvotes value of an existing issue.
UpvotesNeverDecrease ==
  [][\A id \in DOMAIN issues \cap DOMAIN issues' :
       UpvotesOr0(issues'[id]) >= UpvotesOr0(issues[id])]_vars

(***************************************************************************)
(* A report submitted when an earlier one is stored                        *)
(***************************************************************************)
FirstKey == PushKey(0)

DupTitles ==
  {<<>>,
   <<"B", "i", "g", " ", "h", "o", "l", "e">>,
   <<"D", "e", "e", "p", " ", "h", "o", "l", "e", " ", "o", "n", " ", "m", "a", "i", "n", " ", "s", "t", "r", "e", "e", "t">>}

BrokenRoad == <<"b", "r", "o", "k", "e", "n", " ", "r", "o", "a", "d", " ", "p", "o", "t", "h", "o", "l", "e">>
PotholeNearMarket == <<"P", "o", "t", "h", "o", "l", "e", " ", "n", "e", "a", "r", " ", "m", "a", "r", "k", "e", "t">>
LargePothole == <<"L", "a", "r", "g", "e", " ", "p", "o", "t", "h", "o", "l", "e", " ", "c", "l", "o", "s", "e", " ", "t", "o", " ", "t", "h", "e", " ", "m", "a", "r", "k", "e", "t">>

DupReport(title, description) ==
  Request([title |-> title, description |-> description, category |-> "roads"],
          <<<<"a", ".", "j", "p", "g">>>>)

\* the report stored first, and the reports submitted after it
FirstReports ==
  {DupReport(t, d) : t \in DupTitles, d \in {BrokenRoad, PotholeNearMarket}}

SecondReports ==
  {DupReport(t, d) : t \in DupTitles, d \in {BrokenRoad, LargePothole}}

InitDup ==
  /\ \E first \in FirstReports : issues = (FirstKey :> NewIssue(first, 0))
  /\ nextKey = 0
  /\ analyses = EmptyBag
  /\ analytics = EmptyBag
  /\ now = 0
  /\ CallsInit
  /\ HotspotsInit
  /\ spamParts = <<>>
  /\ spamOut = Null
  /\ FnInit
  /\ BlobsInit

\* apiCreateIssue when no step throws
NextDup ==
  \/ \E c \in DOMAIN calls, req \in SecondReports, timestamp \in {now, now + 1} :
       CreateIssue(c, req, 2, timestamp)
  \/ \E c \in DOMAIN calls, rConf \in RandomTenths, rQual \in RandomTenths :
       ProcessLocally(c, TRUE, TRUE, rConf, rQual)
  \/ \E c \in DOMAIN calls :
       /\ calls[c].op = "create"
       /\ calls[c].pc = "storeMLAnalysis"
       /\ StoreMLAnalysis(c, 2 + Len(AnalysisEvents(calls[c].result)))
  \/ \E c \in DOMAIN calls : UpdatePriority(c, TRUE)
  \/ \E c \in DOMAIN calls : Return(c)

SpecDup == InitDup /\ [][NextDup]_vars

\* the calls whose analysis has returned its result
AnalysedCalls == {c \in CreateCalls : calls[c].mlAnalysis # Null}

\* the similarity findSimilarIssues('', description, location) gives a record
SimilarityTo(rec, description, location) ==
  FinalSimilarity(Jaccard(WordSet(<<>>, description),
                          WordSet(rec.title, rec.description)),
                  LocationMatch(rec.location, location))

\* C8: when a stored issue has the description and location of the new
\* report, the analysis of the new report gives isDuplicate = true with a
\* similarity of at least 0.7, whatever the stored issue's title.
IdenticalReportIsDuplicate ==
  \A c \in AnalysedCalls :
    (/\ issues[FirstKey].description = calls[c].req.description
     /\ issues[FirstKey].location = calls[c].req.location) =>
      /\ calls[c].mlAnalysis.isDuplicate
      /\ FracAtLeast(calls[c].mlAnalysis.duplicateSimilarity,
                     MIN_DUPLICATE_SIMILARITY)

\* the analysed calls of the scenario: "Pothole near market" is stored and
\* "Large pothole close to the market" submitted at the same location, the
\* store holding these two reports
ScenarioCalls ==
  {c \in AnalysedCalls :
     /\ DOMAIN issues = {FirstKey, calls[c].issueId}
     /\ issues[FirstKey].description = PotholeNearMarket
     /\ calls[c].req.description = LargePothole
     /\ issues[FirstKey].location = calls[c].req.location}

OLD_DAY == 0          \* the day the older issues were reported
RECENT_DAY == 8       \* the day the newer issues were reported
TODAY == 10           \* the day hotspots are generated

\* the issues of the corpus: two at "mg rd", one without and one with
\* coordinates, and one elsewhere, near the second
HotspotReports ==
  {[title |-> <<>>, description |-> <<"x">>, category |-> "roads",
    location |-> <<"M", "G", " ", "R", "d", ",", " ", "P", "u", "n", "e">>,
    locationData |-> Null, images |-> <<>>],
   [title |-> <<>>, description |-> <<"x">>, category |-> "water",
    location |-> <<"m", "g", " ", "r", "d", " ", ",", " ", "C", "a", "m", "p">>,
    locationData |-> [lat |-> 18520, lng |-> 73850], images |-> <<>>],
   [title |-> <<>>, description |-> <<"x">>, category |-> "garbage",
    location |-> <<"D", "e", "p", "o", "t">>,
    locationData |-> [lat |-> 18525, lng |-> 73855], images |-> <<>>]}

HotspotCorpora == UNION {[1..n -> HotspotReports] : n \in 0..MaxCorpus}

\* the days the n issues were reported on, in the order of their keys
ReportDays(n) ==
  {[i \in 1..n |-> IF i <= k THEN OLD_DAY ELSE RECENT_DAY] : k \in 0..n}

\* the store after the issues of corpus were created, none with an image
CorpusStored(corpus, days) ==
  /\ issues = [k \in {PushKey(i - Len(corpus)) : i \in 1..Len(corpus)} |->
                 NewIssue(corpus[k[2] + Len(corpus)], days[k[2] + Len(corpus)])]
  /\ analytics = SetToBag({[type |-> "issue_created",
                            issueId |-> PushKey(i - Len(corpus))] :
                             i \in 1..Len(corpus)})

InitHotspot ==
  /\ \E corpus \in HotspotCorpora :
       \E days \in ReportDays(Len(corpus)) : CorpusStored(corpus, days)
  /\ nextKey = 0
  /\ analyses = EmptyBag
  /\ now = TODAY
  /\ CallsInit
  /\ HotspotsInit
  /\ spamParts = <<>>
  /\ spamOut = Null
  /\ FnInit
  /\ BlobsInit

NextHotspot ==
  \/ \E c \in DOMAIN calls, ok \in BOOLEAN : HotspotGetIssues(c, ok)
  \/ \E c \in DOMAIN calls, ok \in BOOLEAN : HotspotGetActive(c, ok)
  \/ \E c \in DOMAIN calls, done \in 0..2 : HotspotStore(c, done)
  \/ \E c \in DOMAIN calls : Return(c)

SpecHotspot == InitHotspot /\ [][NextHotspot]_vars

\* C4: a generateHotspotPredictions call made on the unchanged corpus right
\* after a call that ran to completion stores no new hotspot and returns an
\* empty list.
HotspotGenerationIsIdempotent ==
  \A c \in HotspotCalls :
    (calls[c].rerun /\ ~calls[c].threw /\ calls[c].pc # "getActiveHotspots") =>
      /\ calls[c].pending = <<>>
      /\ calls[c].predictions = <<>>

\* the issues of the normalized-location group a prediction's location names
GroupOf(location) ==
  {id \in DOMAIN issues : Capitalize(NormalizedLocation(issues[id])) = location}

\* the predictions stored, about to be stored, or returned
EmittedPredictions ==
  {[location |-> hotspots[k].location, count |-> hotspots[k].reasoning.count] :
     k \in DOMAIN hotspots}
  \cup UNION {{[location |-> q[i].location, count |-> q[i].reasoning.count] :
                 i \in DOMAIN q} :
              q \in UNION {{calls[c].pending, calls[c].predictions} \cup
                           (IF calls[c].pc = "done"
                              THEN {calls[c].response.predictions} ELSE {}) :
                           c \in HotspotCalls}}

\* C5: every prediction stored or returned stands for a normalized-location
\* group of at least 2 issues, never for a group of fewer than 2.
NoHotspotForSingleIssue ==
  \A p \in EmittedPredictions :
    /\ p.count >= 2
    /\ Cardinality(GroupOf(p.location)) = p.count

\* a hotspot has been stored for one group while another group holds a
\* single issue
HotspotBesideSingleIssue ==
  /\ hotspots # <<>>
  /\ \E id \in DOMAIN issues :
       Cardinality(GroupOf(Capitalize(NormalizedLocation(issues[id])))) = 1

\* the two hotspots lie less than 0.01 degrees apart in latitude and in
\* longitude
CloseTogether(a, b) ==
  Distance(a.lat, b.lat) < PROXIMITY /\ Distance(a.lng, b.lng) < PROXIMITY

\* C20: generateHotspotPredictions never stores a prediction within 0.01
\* degrees, in both coordinates, of a hotspot that is active at the moment of
\* storing, and so no two active hotspots are ever that close together.
NoHotspotStoredBesideActiveOne ==
  [][/\ \A new \in DOMAIN hotspots' \ DOMAIN hotspots :
          \A old \in DOMAIN hotspots :
            hotspots[old].isActive => ~CloseTogether(hotspots'[new], hotspots[old])
     /\ \A h, k \in DOMAIN hotspots' :
          (h # k /\ hotspots'[h].isActive /\ hotspots'[k].isActive)
          => ~CloseTogether(hotspots'[h], hotspots'[k])]_vars

\* the stored record holds the prediction
HoldsPrediction(rec, prediction) ==
  /\ rec.location = prediction.location
  /\ rec.lat = prediction.lat
  /\ rec.lng = prediction.lng
  /\ rec.riskLevel = prediction.riskLevel

\* C29: the list generateHotspotPredictions returns is exactly the set of
\* predictions the invocation wrote to the hotspot store, also when a write
\* fails part-way: every returned prediction is stored, and the prediction
\* written by the step that ends the run is among those returned.
ReturnedPredictionsAreThoseStored ==
  [][\A c \in DOMAIN calls :
       (/\ calls[c].op = "hotspots"
        /\ calls[c].pc = "storeHotspotPrediction"
        /\ calls'[c].pc = "done")
       => LET returned == calls'[c].response.predictions
          IN  /\ \A i \in DOMAIN returned :
                   \E k \in DOMAIN hotspots' :
                     HoldsPrediction(hotspots'[k], returned[i])
              /\ \A k \in DOMAIN hotspots' \ DOMAIN hotspots :
                   \E i \in DOMAIN returned :
                     HoldsPrediction(hotspots'[k], returned[i])]_vars

(***************************************************************************)
(* findSimilarIssues and checkForDuplicates on their own, over a stored    *)
(* corpus                                                                  *)
(***************************************************************************)
MGRoad == <<"M", "G", " ", "R", "o", "a", "d">>

\* the issues stored: one with a description only, one with a title too, one
\* with neither
SimilarReports ==
  {[title |-> <<>>, description |-> <<"p", "o", "t", "h", "o", "l", "e">>, category |-> "roads",
    location |-> MGRoad, locationData |-> Null, images |-> <<>>],
   [title |-> <<"B", "i", "g", " ", "h", "o", "l", "e">>, description |-> <<"p", "o", "t", "h", "o", "l", "e">>, category |-> "roads",
    location |-> MGRoad, locationData |-> Null, images |-> <<>>],
   [title |-> <<>>, description |-> <<>>, category |-> "other",
    location |-> MGRoad, locationData |-> Null, images |-> <<>>]}

\* the arguments of findSimilarIssues(title, description, location)
SimilarQueries ==
  {[title |-> <<>>, description |-> <<"p", "o", "t", "h", "o", "l", "e">>, location |-> MGRoad],
   [title |-> <<>>, description |-> <<>>, location |-> <<"m", "g", " ", "r", "o", "a", "d">>],
   [title |-> <<>>, description |-> <<"p", "o", "t", "h", "o", "l", "e">>, location |-> <<"C", "a", "m", "p">>],
   [title |-> <<"B", "i", "g", " ", "h", "o", "l", "e">>, description |-> <<"p", "o", "t", "h", "o", "l", "e">>, location |-> MGRoad]}

SimilarCorpora == UNION {[1..n -> SimilarReports] : n \in 0..MaxListed}

InitSimilar ==
  /\ \E corpus \in SimilarCorpora :
       CorpusStored(corpus, [i \in 1..Len(corpus) |-> i])
  /\ nextKey = 0
  /\ analyses = EmptyBag
  /\ now = MaxListed
  /\ CallsInit
  /\ HotspotsInit
  /\ spamParts = <<>>
  /\ spamOut = Null
  /\ fnArgs \in SimilarQueries
  /\ fnOut = <<>>
  /\ BlobsInit

\* findSimilarIssues(title, description, location) is called
FindSimilar ==
  /\ fnOut = <<>>
  /\ fnOut' = [similar |-> findSimilarIssues(getIssues(issues), fnArgs.title,
                                            fnArgs.description, fnArgs.location),
               duplicate |-> Null]
  /\ UNCHANGED <<fnArgs, storeVars, callVars, spamVars, hotVars, fileVars>>

\* checkForDuplicates goes on with what findSimilarIssues returned
CheckDuplicates ==
  /\ fnOut # <<>>
  /\ fnOut.duplicate = Null
  /\ fnOut' = [fnOut EXCEPT !.duplicate = checkForDuplicates(fnOut.similar)]
  /\ UNCHANGED <<fnArgs, storeVars, callVars, spamVars, hotVars, fileVars>>

NextSimilar == FindSimilar \/ CheckDuplicates

SpecSimilar == InitSimilar /\ [][NextSimilar]_vars

\* the token sets of the call's arguments and of a stored issue
InputWords == WordSet(fnArgs.title, fnArgs.description)
IssueWords(id) == WordSet(issues[id].title, issues[id].description)

\* C12: the Jaccard value of the candidate's and an entry's token sets lies
\* in [0,1], is 1 when the sets are equal, 0 when they share no token, and
\* its divisor is never zero, empty strings included.
JaccardWellDefined ==
  fnOut # <<>> =>
    \A id \in DOMAIN issues :
      LET j == Jaccard(InputWords, IssueWords(id))
      IN  /\ j.den > 0
          /\ 0 <= j.num /\ j.num <= j.den
          /\ InputWords = IssueWords(id) => j.num = j.den
          /\ InputWords \cap IssueWords(id) = {} => j.num = 0

\* a call with empty title and description has been made over a store that
\* holds an issue with the same token set and one sharing no token
JaccardOfEmptyStrings ==
  /\ fnOut # <<>>
  /\ fnArgs.title = <<>> /\ fnArgs.description = <<>>
  /\ \E id \in DOMAIN issues : InputWords = IssueWords(id)
  /\ \E id \in DOMAIN issues : InputWords \cap IssueWords(id) = {}

\* what findSimilarIssues returned
SimilarResults == fnOut.similar.results

\* the stored issues findSimilarIssues returned
ReturnedIds == {SimilarResults[i].issue.id : i \in DOMAIN SimilarResults}

\* one location contains the other, case-insensitively
LocationsMatch(id) ==
  \/ includes(toLowerCase(issues[id].location), toLowerCase(fnArgs.location))
  \/ includes(toLowerCase(fnArgs.location), toLowerCase(issues[id].location))

\* 0.7 * inter / union + 0.3 (one location contains the other) or
\* 0.7 * inter / union, for the token sets of the call and of issue id
ClaimedSimilarity(id) ==
  LET inter == Cardinality(InputWords \cap IssueWords(id))
      union == Cardinality(InputWords \cup IssueWords(id))
  IN  [num |-> 7 * inter + (IF LocationsMatch(id) THEN 3 * union ELSE 0),
       den |-> 10 * union]

\* C17: findSimilarIssues returns at most 5 entries, each a stored issue with
\* final similarity above 0.3, in non-increasing order of similarity; no
\* stored issue left out has a final similarity greater than a returned
\* entry's; the final similarity is 0.7 x Jaccard, plus 0.3 when one location
\* contains the other case-insensitively.
SimilarIssuesAreTopFive ==
  fnOut # <<>> =>
    /\ Len(SimilarResults) <= 5
    /\ \A i \in DOMAIN SimilarResults :
         LET entry == SimilarResults[i]
         IN  /\ entry.issue.id \in DOMAIN issues
             /\ entry.issue.rec = issues[entry.issue.id]
             /\ entry.similarity.num * ClaimedSimilarity(entry.issue.id).den
                  = ClaimedSimilarity(entry.issue.id).num * entry.similarity.den
             /\ 10 * entry.similarity.num > 3 * entry.similarity.den
             /\ \A j \in 1..(i - 1) :
                  /\ SimilarResults[j].issue.id # entry.issue.id
                  /\ FracAtLeast(SimilarResults[j].similarity, entry.similarity)
    /\ \A id \in DOMAIN issues \ ReturnedIds, i \in DOMAIN SimilarResults :
         ~FracGreater(ClaimedSimilarity(id), SimilarResults[i].similarity)

\* five issues were returned, not all equally similar, and an issue with
\* similarity above 0.3 was left out
SixthSimilarIssueLeftOut ==
  /\ fnOut # <<>>
  /\ Len(SimilarResults) = 5
  /\ FracGreater(SimilarResults[1].similarity, SimilarResults[5].similarity)
  /\ \E id \in DOMAIN issues \ ReturnedIds :
       FracGreater(ClaimedSimilarity(id), SIMILAR_LISTED_ABOVE)

\* checkForDuplicates has returned
DuplicateChecked == fnOut # <<>> /\ fnOut.duplicate # Null

\* C18 as stated: isDuplicate is true exactly when the highest final
\* similarity findSimilarIssues returned exceeds 0.7; a top similarity of
\* exactly 0.7 does not make a duplicate.
DuplicateOnlyAboveThreshold ==
  DuplicateChecked =>
    (fnOut.duplicate.isDuplicate
     <=> /\ SimilarResults # <<>>
         /\ 10 * SimilarResults[1].similarity.num
              > 7 * SimilarResults[1].similarity.den)

\* C18, amended: isDuplicate is true exactly when the highest final
\* similarity findSimilarIssues returned is at least 0.7, and the issue
\* reported as the duplicate is then the first one returned.
DuplicateFromThreshold ==
  DuplicateChecked =>
    /\ fnOut.duplicate.isDuplicate
       <=> /\ SimilarResults # <<>>
           /\ 10 * SimilarResults[1].similarity.num
                >= 7 * SimilarResults[1].similarity.den
    /\ fnOut.duplicate.isDuplicate
       => /\ fnOut.duplicate.duplicateIssueId = SimilarResults[1].issue.id
          /\ fnOut.duplicate.similarity = SimilarResults[1].similarity

\* a top similarity of exactly 0.7 has been reported as a duplicate
DuplicateAtThreshold ==
  /\ DuplicateChecked
  /\ SimilarResults # <<>>
  /\ 10 * SimilarResults[1].similarity.num = 7 * SimilarResults[1].similarity.den
  /\ fnOut.duplicate.isDuplicate

(***************************************************************************)
(* The deletion of stored issues and of their images                       *)
(***************************************************************************)
StoredKeys == {PushKey(i - MaxStored) : i \in 1..MaxStored}

InitDelete ==
  /\ \E first \in FirstReports :
       CorpusStored([i \in 1..MaxStored |-> first], [i \in 1..MaxStored |-> 0])
  /\ nextKey = 0
  /\ analyses = EmptyBag
  /\ now = 0
  /\ CallsInit
  /\ HotspotsInit
  /\ spamParts = <<>>
  /\ spamOut = Null
  /\ FnInit
  /\ BlobsInit

NextDelete ==
  \/ \E id \in StoredKeys, index \in 1..MaxBlobs, ok \in BOOLEAN :
       UploadImage(id, index, ok)
  \/ \E c \in DOMAIN calls, id \in StoredKeys, ok \in BOOLEAN :
       DeleteList(c, id, ok)
  \/ \E c \in DOMAIN calls, ok \in BOOLEAN : DeleteObject(c, ok)
  \/ \E c \in DOMAIN calls, ok \in BOOLEAN : DeleteIssue(c, ok)
  \/ \E c \in DOMAIN calls : Return(c)

SpecDelete == InitDelete /\ [][NextDelete]_vars

\* C13: when apiDeleteIssue(id) returns true, neither the record issues/id
\* nor any blob under issues/id/ is left, also when the listing or the
\* deletion of the blobs failed.
DeletedIssueLeavesNothing ==
  [][\A c \in DOMAIN calls :
       (/\ calls[c].op = "delete"
        /\ calls[c].pc = "remove"
        /\ calls'[c].op = "delete"
        /\ calls'[c].pc = "done"
        /\ calls'[c].response)
       => /\ calls'[c].issueId \notin DOMAIN issues'
          /\ \A b \in blobs' : b.issueId # calls'[c].issueId]_vars

(***************************************************************************)
(* Analyses asked for by the report form beside the creation of issues     *)
(***************************************************************************)
\* what the form hands to apiAnalyzeContent: the first image and the
\* description typed so far
AnalyzeRequests ==
  {r \in Requests : r.title = <<>> /\ r.category = "roads" /\ r.images # <<>>}

\* the reports submitted beside them
CreateRequests == {r \in Requests : r.images # <<>>}

NextAnalyze ==
  \/ \E c \in DOMAIN calls, req \in CreateRequests, timestamp \in {now, now + 1} :
       CreateIssue(c, req, 2, timestamp)
  \/ \E c \in DOMAIN calls, ok \in BOOLEAN, readOk \in BOOLEAN,
        rConf \in RandomTenths, rQual \in {0} :
       ProcessLocally(c, ok, readOk, rConf, rQual)
  \/ \E c \in DOMAIN calls, done \in 0..4 : StoreMLAnalysis(c, done)
  \/ \E c \in DOMAIN calls, ok \in BOOLEAN : UpdatePriority(c, ok)
  \/ \E c \in DOMAIN calls, req \in AnalyzeRequests, timestamp \in {now, now + 1} :
       AnalyzeContent(c, req, timestamp)
  \/ \E c \in DOMAIN calls, ok \in BOOLEAN, readOk \in BOOLEAN,
        rConf \in RandomTenths, rQual \in {0} :
       AnalyzeProcessLocally(c, ok, readOk, rConf, rQual)
  \/ \E c \in DOMAIN calls, done \in 0..4 : AnalyzeStore(c, done)
  \/ \E c \in DOMAIN calls : Return(c)

SpecAnalyze == Init /\ [][NextAnalyze]_vars

\* C14: no two invocations of analyzeImageWithBackend with the same issue id
\* are in flight together.
NoTwoAnalysesOfOneId ==
  \A c, d \in InAnalysis : c # d => calls[c].issueId # calls[d].issueId

\* findSimilarIssues throws in this step of call c: the store could not be
\* read, or a stored record has no title, description or location
SimilarIssuesThrew(c) ==
  \/ "findSimilarIssues" \in calls'[c].threw
  \/ \E id \in DOMAIN issues : Malformed(issues[id])

\* C19: when findSimilarIssues throws, processLocally still returns a result
\* whose category, spam score, isSpam and reasons are the ones computed from
\* the description, with isDuplicate false and no duplicateIssueId.
DuplicateCheckFailureKeepsAnalysis ==
  [][\A c \in DOMAIN calls :
       (/\ calls[c].op \in {"create", "analyze"}
        /\ calls[c].pc = "processLocally"
        /\ calls'[c].op = calls[c].op
        /\ calls'[c].pc = "storeMLAnalysis"
        /\ SimilarIssuesThrew(c))
       => LET description == calls[c].req.description
              result == calls'[c].result
          IN  /\ result.predictedCategory
                   = predictCategory(toLowerCase(description), 0).category
              /\ result.spamScore = detectSpam(description).score
              /\ result.isSpam = detectSpam(description).isSpam
              /\ result.spamReasons = detectSpam(description).reasons
              /\ ~result.isDuplicate
              /\ result.duplicateIssueId = Null]_vars

\* processLocally has returned the result of a spam report to apiCreateIssue
\* while the store holds the record without title an apiAnalyzeContent call
\* left under its temporary id
AnalysedDespiteMalformedRecord ==
  \E c \in DOMAIN calls :
    /\ calls[c].op = "create"
    /\ calls[c].pc = "storeMLAnalysis"
    /\ \E id \in DOMAIN issues : Malformed(issues[id])
    /\ calls[c].result.isSpam
    /\ ~calls[c].result.isDuplicate

\* C26: a call of apiAnalyzeContent leaves the records under issues/ as they
\* were, so every stored record was written by createIssue and has a title
\* and a timestamp.
AnalysisLeavesIssuesUnchanged ==
  [][\A c \in DOMAIN calls :
       (calls'[c] # calls[c] /\ (calls[c].op = "analyze" \/ calls'[c].op = "analyze"))
       => /\ issues' = issues
          /\ \A id \in DOMAIN issues' :
               issues'[id].title # Undefined /\ "timestamp" \in DOMAIN issues'[id]]_vars

(***************************************************************************)
(* The deactivation of old hotspots                                        *)
(***************************************************************************)
FIRST_DAY == 30        \* the day the model starts on
LAST_DAY == 32         \* the last day of the model

\* the hotspots stored at the start: created on day 0 or 1, some of them
\* deactivated by an earlier call
StoredPrediction ==
  [location |-> <<"M", "g", " ", "r", "d">>, lat |-> SYNTH_LAT, lng |-> SYNTH_LNG,
   predictedIssueType |-> "roads", riskLevel |-> "medium",
   probability |-> Probability(2, 0),
   reasoning |-> [count |-> 2, recentIssues |-> 0],
   predictedTimeframe |-> PredictedTimeframe("medium")]

StoredHotspots ==
  {[HotspotRecord(StoredPrediction, day) EXCEPT !.isActive = active] :
     day \in {0, 1}, active \in BOOLEAN}

InitExpire ==
  /\ issues = <<>>
  /\ nextKey = 0
  /\ analyses = EmptyBag
  /\ analytics = EmptyBag
  /\ now = FIRST_DAY
  /\ CallsInit
  /\ \E n \in 1..MaxHotspots :
       hotspots \in [{PushKey(i) : i \in 1..n} -> StoredHotspots]
  /\ runs = <<>>
  /\ spamParts = <<>>
  /\ spamOut = Null
  /\ FnInit
  /\ BlobsInit

NextExpire ==
  \/ \E c \in DOMAIN calls, ok \in BOOLEAN : DeactivateGet(c, ok)
  \/ \E c \in DOMAIN calls, ok \in BOOLEAN : DeactivateUpdate(c, ok)
  \/ \E c \in DOMAIN calls : Return(c)
  \/ Tick(LAST_DAY)

SpecExpire == InitExpire /\ [][NextExpire]_vars

DeactivateCalls == {c \in DOMAIN calls : calls[c].op = "deactivate"}

\* C15: once deactivateExpiredHotspots has completed, no hotspot created more
\* than 30 days before the time it read is active and the number it returned
\* is the number of hotspots it switched from active to inactive; no step
\* changes isActive of a hotspot aged 30 days or less or makes an inactive
\* hotspot active.
ExpiredHotspotsDeactivated ==
  [][/\ \A c \in DeactivateCalls :
          (calls[c].pc = "update" /\ calls'[c].pc = "done" /\ ~calls'[c].threw)
          => /\ \A id \in DOMAIN hotspots' :
                  calls'[c].today - hotspots'[id].createdAt > EXPIRY_DAYS
                  => ~hotspots'[id].isActive
             /\ calls'[c].response.deactivatedCount = calls'[c].switched
     /\ \A id \in DOMAIN hotspots :
          /\ now - hotspots[id].createdAt <= EXPIRY_DAYS
             => hotspots'[id].isActive = hotspots[id].isActive
          /\ ~hotspots[id].isActive => ~hotspots'[id].isActive]_vars

(***************************************************************************)
(* The classifier on its own: a description is put together from           *)
(* fragments and then classified                                           *)
(***************************************************************************)
LargePotholeOnTheRoad == <<"l", "a", "r", "g", "e", " ", "p", "o", "t", "h", "o", "l", "e", " ", "o", "n", " ", "t", "h", "e", " ", "r", "o", "a", "d">>

CategoryFragments ==
  {<<"p", "o", "t", "h", "o", "l", "e", " ">>,
   <<"w", "a", "t", "e", "r", " ">>,
   <<"l", "e", "a", "k", " ">>,
   <<"f", "o", "o", "t", "p", "a", "t", "h", " ">>,
   <<"S", "t", "r", "e", "e", "t", " ">>,
   <<"h", "e", "l", "l", "o", " ">>,
   LargePotholeOnTheRoad}

CategoryAppend(f) ==
  /\ fnOut = <<>>
  /\ Len(fnArgs) < MaxFragments
  /\ fnArgs' = Append(fnArgs, f)
  /\ UNCHANGED <<fnOut, storeVars, callVars, spamVars, hotVars, fileVars>>

\* predictCategory(description) is called
PredictCategory(r) ==
  /\ fnOut = <<>>
  /\ fnOut' = predictCategory(Concat(fnArgs), r)
  /\ UNCHANGED <<fnArgs, storeVars, callVars, spamVars, hotVars, fileVars>>

NextCategory ==
  \/ \E f \in CategoryFragments : CategoryAppend(f)
  \/ \E r \in RandomTenths : PredictCategory(r)

SpecCategory == SpamInit /\ [][NextCategory]_vars

\* how many keywords of the i-th category the description contains
KeywordCount(description, i) ==
  KeywordMatches(description, categoryKeywords[i].keywords)

\* the largest of these numbers
MostKeywords(description) ==
  CHOOSE m \in {KeywordCount(description, i) : i \in DOMAIN categoryKeywords} :
    \A i \in DOMAIN categoryKeywords : KeywordCount(description, i) <= m

\* C16: predictCategory returns the first category, in the order of
\* categoryKeywords, with the largest number of keywords contained in the
\* description, and 'other' exactly when no keyword is contained; the
\* category does not depend on the random draw, and 'large pothole on the
\* road' gives 'roads'.
CategoryIsFirstWithMostKeywords ==
  fnOut # <<>> =>
    LET description == Concat(fnArgs)
        most == MostKeywords(description)
    IN  /\ fnOut.category = "other" <=> most = 0
        /\ most > 0 =>
             \E i \in DOMAIN categoryKeywords :
               /\ categoryKeywords[i].category = fnOut.category
               /\ KeywordCount(description, i) = most
               /\ \A j \in 1..(i - 1) : KeywordCount(description, j) < most
        /\ \A r \in RandomTenths :
             predictCategory(description, r).category = fnOut.category
        /\ description = LargePotholeOnTheRoad => fnOut.category = "roads"

\* a description has been classified in which two categories have the
\* largest number of keywords
CategoryTieClassified ==
  /\ fnOut # <<>>
  /\ LET description == Concat(fnArgs)
     IN  /\ MostKeywords(description) > 0
         /\ \E i, j \in DOMAIN categoryKeywords :
              /\ i # j
              /\ KeywordCount(description, i) = MostKeywords(description)
              /\ KeywordCount(description, j) = MostKeywords(description)

(***************************************************************************)
(* clusterIssuesByLocation and generateHotspotFromCluster on their own,    *)
(* over a stored corpus                                                    *)
(***************************************************************************)
\* the issues stored: at two places, both with coordinates
ClusterReports == {r \in HotspotReports : r.locationData # Null}

ClusterCorpora == UNION {[1..n -> ClusterReports] : n \in 1..MaxClustered}

InitCluster ==
  /\ \E corpus \in ClusterCorpora :
       \E days \in ReportDays(Len(corpus)) : CorpusStored(corpus, days)
  /\ nextKey = 0
  /\ analyses = EmptyBag
  /\ now = TODAY
  /\ CallsInit
  /\ HotspotsInit
  /\ spamParts = <<>>
  /\ spamOut = Null
  /\ FnInit
  /\ BlobsInit

\* clusterIssuesByLocation(issues) is called on what getIssues returns
FormClusters ==
  /\ fnOut = <<>>
  /\ \E draws \in Draws(Cardinality(LocationKeys(getIssues(issues)))) :
       fnOut' = [clusters |-> clusterIssuesByLocation(getIssues(issues), now, draws),
                 predictions |-> <<>>]
  /\ UNCHANGED <<fnArgs, storeVars, callVars, spamVars, hotVars, fileVars>>

\* generateHotspotFromCluster(location, cluster) is called for every cluster
GeneratePredictions ==
  /\ fnOut # <<>>
  /\ fnOut.predictions = <<>>
  /\ fnOut' = [fnOut EXCEPT
                 !.predictions =
                    [i \in DOMAIN fnOut.clusters |->
                       generateHotspotFromCluster(fnOut.clusters[i].location,
                                                  fnOut.clusters[i])]]
  /\ UNCHANGED <<fnArgs, storeVars, callVars, spamVars, hotVars, fileVars>>

NextCluster == FormClusters \/ GeneratePredictions

SpecCluster == InitCluster /\ [][NextCluster]_vars

\* the clusters predictions have been generated for
Predicted == IF fnOut = <<>> THEN {} ELSE DOMAIN fnOut.predictions

\* C21: with c issues of which r are recent, riskLevel is 'critical' if
\* c >= 5 and r/c > 0.5, otherwise 'high' if c >= 3 or r/c > 0.3, otherwise
\* 'medium' if c >= 2, otherwise 'low'; predictedTimeframe follows from
\* riskLevel alone.
RiskLevelFollowsCountAndRecency ==
  \A i \in Predicted :
    LET c == fnOut.clusters[i].count
        r == fnOut.clusters[i].recentIssues
        risk == fnOut.predictions[i].riskLevel
        critical == c >= 5 /\ 2 * r > c
        high == ~critical /\ (c >= 3 \/ 10 * r > 3 * c)
        medium == ~critical /\ ~high /\ c >= 2
    IN  /\ risk \in {"critical", "high", "medium", "low"}
        /\ risk = "critical" <=> critical
        /\ risk = "high" <=> high
        /\ risk = "medium" <=> medium
        /\ \A j \in Predicted :
             fnOut.predictions[j].riskLevel = risk
             => fnOut.predictions[j].predictedTimeframe
                  = fnOut.predictions[i].predictedTimeframe
        /\ fnOut.predictions[i].predictedTimeframe
             = (CASE risk = "critical" -> "Next few days"
                  [] risk = "high" -> "Next 1-2 weeks"
                  [] risk = "medium" -> "Next month"
                  [] OTHER -> "Next 2-3 months")

\* predictions have been generated for a critical cluster and a low one
CriticalAndLowPredicted ==
  /\ \E i \in Predicted : fnOut.predictions[i].riskLevel = "critical"
  /\ \E i \in Predicted : fnOut.predictions[i].riskLevel = "low"

\* C22: probability = min(0.5 + 0.1 x count + 0.2 x recentIssues / count,
\* 0.95) with 0 <= recentIssues <= count; it lies in [0, 1], and in
\* [0.7, 0.95] for the clusters of at least 2 issues, the ones emitted.
ProbabilityIsCappedSum ==
  \A i \in Predicted :
    LET c == fnOut.clusters[i].count
        r == fnOut.clusters[i].recentIssues
        prob == fnOut.predictions[i].probability
        \* 0.5 + 0.1 c + 0.2 r / c = (5 c + c c + 2 r) / (10 c)
        overCap == 20 * (5 * c + c * c + 2 * r) > 19 * 10 * c
    IN  /\ 0 <= r /\ r <= c /\ c >= 1
        /\ prob.den > 0
        /\ IF overCap
             THEN 20 * prob.num = 19 * prob.den
             ELSE prob.num * 10 * c = (5 * c + c * c + 2 * r) * prob.den
        /\ 0 <= prob.num /\ prob.num <= prob.den
        /\ ClusterEmitted(fnOut.clusters[i])
           => /\ 10 * prob.num >= 7 * prob.den
              /\ 20 * prob.num <= 19 * prob.den

\* predictions have been generated for a cluster whose probability is cut
\* to 0.95 and for one whose probability is 0.7
CappedAndLowestProbability ==
  /\ \E i \in Predicted :
       /\ 20 * fnOut.predictions[i].probability.num
            = 19 * fnOut.predictions[i].probability.den
       /\ 2 * fnOut.clusters[i].recentIssues > fnOut.clusters[i].count
  /\ \E i \in Predicted :
       /\ ClusterEmitted(fnOut.clusters[i])
       /\ 10 * fnOut.predictions[i].probability.num
            = 7 * fnOut.predictions[i].probability.den

(***************************************************************************)
(* The upload of images for an issue                                       *)
(***************************************************************************)
MAX_IMAGE_SIZE == 10485760    \* 10 * 1024 * 1024
COMPRESS_ABOVE == 2097152     \* 2 * 1024 * 1024

ImageJpeg == <<"i", "m", "a", "g", "e", "/", "j", "p", "e", "g">>
ImageSvg == <<"i", "m", "a", "g", "e", "/", "s", "v", "g", "+", "x", "m", "l">>
TextPlain == <<"t", "e", "x", "t", "/", "p", "l", "a", "i", "n">>
ImageSlash == <<"i", "m", "a", "g", "e", "/">>

\* validateImage's allowedTypes
allowedTypes ==
  {ImageJpeg, <<"i", "m", "a", "g", "e", "/", "p", "n", "g">>, <<"i", "m", "a", "g", "e", "/", "g", "i", "f">>, <<"i", "m", "a", "g", "e", "/", "w", "e", "b", "p">>}

\* String.prototype.startsWith
startsWith(s, t) == Len(s) >= Len(t) /\ SubSeq(s, 1, Len(t)) = t

\* a mutant of validateImage: any type beginning with image/ is let through
validateImageAnyImage(file) ==
  IF ~startsWith(file.type, ImageSlash)
    THEN [valid |-> FALSE, error |-> "Invalid file type. Allowed: JPEG, PNG, GIF, WebP"]
  ELSE IF file.size > MAX_IMAGE_SIZE
    THEN [valid |-> FALSE, error |-> "File too large. Maximum size is 10MB"]
  ELSE [valid |-> TRUE, error |-> "undefined"]

validateImage(file) ==
  IF file.type \notin allowedTypes
    THEN [valid |-> FALSE, error |-> "Invalid file type. Allowed: JPEG, PNG, GIF, WebP"]
  ELSE IF file.size > MAX_IMAGE_SIZE
    THEN [valid |-> FALSE, error |-> "File too large. Maximum size is 10MB"]
  ELSE [valid |-> TRUE, error |-> "undefined"]

\* uploadImage(file, issueId, index) at Date.now() = timestamp: written is the
\* blob uploadBytes has stored.  storageUp is whether storage is initialised;
\* done counts the awaits that returned before one threw (uploadBytes, then
\* getDownloadURL).  The blob's name is <timestamp>_<index>; its extension is
\* left out.
uploadImage(file, issueId, index, timestamp, storageUp, done) ==
  LET blob == [issueId |-> issueId, name |-> <<timestamp, index>>]
  IN  IF ~storageUp
        THEN [success |-> FALSE, url |-> Null, written |-> {},
              error |-> "Storage not initialized"]
      ELSE IF ~startsWith(file.type, ImageSlash)
        THEN [success |-> FALSE, url |-> Null, written |-> {},
              error |-> "Invalid file type. Only images are allowed."]
      ELSE IF file.size > MAX_IMAGE_SIZE
        THEN [success |-> FALSE, url |-> Null, written |-> {},
              error |-> "File too large. Maximum size is 10MB."]
      ELSE IF done = 0
        THEN [success |-> FALSE, url |-> Null, written |-> {},
              error |-> "Upload failed"]
      ELSE IF done = 1
        THEN [success |-> FALSE, url |-> Null, written |-> {blob},
              error |-> "Upload failed"]
      ELSE [success |-> TRUE, url |-> blob, written |-> {blob},
            error |-> "undefined"]

\* uploadImageFromUrl(imageUrl, issueId, index): fetched is what fetch gave,
\* a throw, a response that is not ok, or a body with its content-type
\* (<<>> when the header is missing)
uploadImageFromUrl(fetched, issueId, index, timestamp, storageUp, done) ==
  IF fetched.outcome = "throws"
    THEN [success |-> FALSE, url |-> Null, written |-> {},
          error |-> "Failed to upload from URL"]
  ELSE IF fetched.outcome = "notOk"
    THEN [success |-> FALSE, url |-> Null, written |-> {},
          error |-> "Failed to fetch image from URL"]
  ELSE uploadImage([type |-> IF fetched.file.type = <<>> THEN ImageJpeg
                             ELSE fetched.file.type,
                    size |-> fetched.file.size],
                   issueId, index, timestamp, storageUp, done)

\* where apiUploadImages stands once input i of a loop is done: the next
\* input of the files, then of the URLs, then the return
UploadAt(request, pc, i) ==
  IF pc = "files" /\ i < Len(request.files) THEN [pc |-> "files", i |-> i]
  ELSE IF pc = "files" /\ request.urls # <<>> THEN [pc |-> "urls", i |-> 0]
  ELSE IF pc = "urls" /\ i < Len(request.urls) THEN [pc |-> "urls", i |-> i]
  ELSE [pc |-> "return", i |-> 0]

\* apiUploadImages(request) up to its first await
ApiUploadImages(request) ==
  /\ fnArgs = <<>>
  /\ fnArgs' = request
  /\ fnOut' = [pc |-> UploadAt(request, "files", 0).pc, i |-> 0,
               uploadedUrls |-> <<>>, errors |-> <<>>, response |-> Null]
  /\ UNCHANGED <<storeVars, callVars, spamVars, hotVars, fileVars>>

\* the state of apiUploadImages once an input has given result
Uploaded(label, result) ==
  LET at == UploadAt(fnArgs, fnOut.pc, fnOut.i + 1)
  IN  [fnOut EXCEPT
         !.pc = at.pc,
         !.i = at.i,
         !.uploadedUrls = IF result.success /\ result.url # Null
                            THEN Append(@, result.url) ELSE @,
         !.errors = IF result.success /\ result.url # Null
                      THEN @
                      ELSE Append(@, [input |-> <<label, fnOut.i + 1>>,
                                      error |-> result.error])]

\* one turn of apiUploadImages' loop over request.files: validateImage, then
\* compressImage for a file above 2 MB (compressed is the JPEG it gives, Null
\* when it throws and the original is used), then uploadImage
UploadFile(compressed, timestamp, storageUp, done) ==
  /\ fnOut # <<>>
  /\ fnOut.pc = "files"
  /\ timestamp \in {now, now + 1}
  /\ now' = timestamp
  /\ LET file == fnArgs.files[fnOut.i + 1]
         validation == validateImage(file)
         fileToUpload == IF file.size > COMPRESS_ABOVE /\ compressed # Null
                           THEN compressed ELSE file
         result == IF ~validation.valid
                     THEN [success |-> FALSE, url |-> Null, written |-> {},
                           error |-> validation.error]
                     ELSE uploadImage(fileToUpload, fnArgs.issueId, fnOut.i,
                                      timestamp, storageUp, done)
     IN  /\ blobs' = blobs \cup result.written
         /\ fnOut' = Uploaded("File", result)
  /\ UNCHANGED <<fnArgs, issues, nextKey, analyses, analytics, callVars, spamVars, hotVars>>

\* one turn of apiUploadImages' loop over request.urls
UploadUrl(fetched, timestamp, storageUp, done) ==
  /\ fnOut # <<>>
  /\ fnOut.pc = "urls"
  /\ timestamp \in {now, now + 1}
  /\ now' = timestamp
  /\ LET result == uploadImageFromUrl(fetched, fnArgs.issueId,
                                      Len(fnOut.uploadedUrls) + fnOut.i,
                                      timestamp, storageUp, done)
     IN  /\ blobs' = blobs \cup result.written
         /\ fnOut' = Uploaded("URL", result)
  /\ UNCHANGED <<fnArgs, issues, nextKey, analyses, analytics, callVars, spamVars, hotVars>>

\* apiUploadImages' return
UploadReturn ==
  /\ fnOut # <<>>
  /\ fnOut.pc = "return"
  /\ fnOut' = [fnOut EXCEPT
                 !.pc = "done",
                 !.response = [success |-> fnOut.errors = <<>>,
                               uploadedUrls |-> fnOut.uploadedUrls,
                               errors |-> fnOut.errors]]
  /\ UNCHANGED <<fnArgs, storeVars, callVars, spamVars, hotVars, fileVars>>

(***************************************************************************)
(* One call of apiUploadImages                                             *)
(***************************************************************************)
MaxFiles == 2         \* files of a request
MaxUrls == 1          \* URLs of a request

SMALL_SIZE == 1048576        \* a size below the compression limit

\* JPEGs below the compression limit, at the size limit and above it, and
\* small files of two other types
UploadFiles ==
  {[type |-> ImageJpeg, size |-> z] :
     z \in {SMALL_SIZE, MAX_IMAGE_SIZE, MAX_IMAGE_SIZE + 1}}
  \cup {[type |-> t, size |-> SMALL_SIZE] : t \in {ImageSvg, TextPlain}}

ImageUrl == <<"h", "t", "t", "p", ":", "/", "/", "x", "/", "a", ".", "j", "p", "g">>

UploadRequests ==
  {[files |-> files, urls |-> urls, issueId |-> PushKey(1)] :
     files \in UNION {[1..n -> UploadFiles] : n \in 0..MaxFiles},
     urls \in UNION {[1..n -> {ImageUrl}] : n \in 0..MaxUrls}}

\* what fetch gives for a URL
Fetches ==
  {[outcome |-> o, file |-> Null] : o \in {"throws", "notOk"}}
  \cup {[outcome |-> "ok", file |-> [type |-> t, size |-> SMALL_SIZE]] :
          t \in {<<>>, ImageSvg, TextPlain}}
  \cup {[outcome |-> "ok", file |-> [type |-> <<>>, size |-> MAX_IMAGE_SIZE + 1]]}

\* what compressImage gives
Compressions ==
  {Null} \cup {[type |-> ImageJpeg, size |-> z] : z \in {SMALL_SIZE, MAX_IMAGE_SIZE + 1}}

InitUpload ==
  /\ StoreInit
  /\ CallsInit
  /\ HotspotsInit
  /\ spamParts = <<>>
  /\ spamOut = Null
  /\ FnInit
  /\ BlobsInit

NextUpload ==
  \/ \E request \in UploadRequests : ApiUploadImages(request)
  \/ \E compressed \in Compressions, timestamp \in {now, Min(now + 1, MaxClock + 1)},
        storageUp \in BOOLEAN, done \in 0..2 :
       UploadFile(compressed, timestamp, storageUp, done)
  \/ \E fetched \in Fetches, timestamp \in {now, Min(now + 1, MaxClock + 1)},
        storageUp \in BOOLEAN, done \in 0..2 :
       UploadUrl(fetched, timestamp, storageUp, done)
  \/ UploadReturn

SpecUpload == InitUpload /\ [][NextUpload]_vars

\* a file validateImage's rules reject
InvalidFile(file) ==
  file.type \notin allowedTypes \/ file.size > MAX_IMAGE_SIZE

\* the step handles one input of the request
UploadsInput == fnOut # <<>> /\ fnOut.pc \in {"files", "urls"}

\* C24: for a file whose type is not an allowed image type or whose size
\* exceeds 10 MB, apiUploadImages writes no blob and adds one entry to
\* errors; every input file or URL adds exactly one entry to either
\* uploadedUrls or errors; and success is true iff errors is empty.
InvalidImagesReportedNotStored ==
  [][/\ UploadsInput =>
          /\ Len(fnOut'.uploadedUrls) + Len(fnOut'.errors)
               = Len(fnOut.uploadedUrls) + Len(fnOut.errors) + 1
          /\ SubSeq(fnOut'.uploadedUrls, 1, Len(fnOut.uploadedUrls)) = fnOut.uploadedUrls
          /\ SubSeq(fnOut'.errors, 1, Len(fnOut.errors)) = fnOut.errors
     /\ (/\ UploadsInput
         /\ fnOut.pc = "files"
         /\ InvalidFile(fnArgs.files[fnOut.i + 1]))
        => /\ blobs' = blobs
           /\ Len(fnOut'.errors) = Len(fnOut.errors) + 1
     /\ (fnOut # <<>> /\ fnOut.pc = "return")
        => /\ fnOut'.response.success <=> fnOut'.response.errors = <<>>
           /\ Len(fnOut'.response.uploadedUrls) + Len(fnOut'.response.errors)
                = Len(fnArgs.files) + Len(fnArgs.urls)]_vars

\* a call given an oversized JPEG, an SVG and a URL has returned: the two
\* files are in errors, the URL's image is stored and success is false
InvalidFilesRejectedUrlStored ==
  /\ fnOut # <<>>
  /\ fnOut.pc = "done"
  /\ Len(fnArgs.files) = 2
  /\ fnArgs.files[1] = [type |-> ImageJpeg, size |-> MAX_IMAGE_SIZE + 1]
  /\ fnArgs.files[2].type = ImageSvg
  /\ Len(fnArgs.urls) = 1
  /\ Len(fnOut.response.errors) = 2
  /\ Len(fnOut.response.uploadedUrls) = 1
  /\ ~fnOut.response.success
  /\ Cardinality(blobs) = 1

(***************************************************************************)
(* The report form: its state is the value React holds for each field, and *)
(* an analysis in flight keeps the values of the render that started it    *)
(***************************************************************************)
FormFields == {"title", "description", "category", "location"}

\* useState("") for every field and useState([]) for images
EmptyForm ==
  [title |-> <<>>, description |-> <<>>, category |-> "", location |-> <<>>,
   images |-> <<>>]

\* !title.trim(), !description.trim(), !category, !location.trim()
FieldEmpty(form, f) ==
  IF f = "category" THEN form.category = "" ELSE trim(form[f]) = <<>>

\* whether runMlAnalysis finds a value for the field in result:
\* result.suggestedTitle, result.enhancedDescription,
\* result.predictedCategory, result.extractedLocation
HasSuggestion(result, f) ==
  IF f = "title" THEN result.suggestedTitle # <<>>
  ELSE IF f = "description" THEN result.enhancedDescription # <<>>
  ELSE IF f = "category" THEN result.predictedCategory # ""
  ELSE result.extractedLocation # Null

\* what runMlAnalysis sets the field to
Suggested(result, f) ==
  IF f = "title" THEN result.suggestedTitle
  ELSE IF f = "description" THEN result.enhancedDescription
  ELSE IF f = "category" THEN result.predictedCategory
  ELSE result.extractedLocation.address

\* onChange / onValueChange of a field: setTitle, setDescription, setCategory
\* or setLocation with what the user entered
TypeField(f, value) ==
  /\ fnArgs[f] # value
  /\ fnArgs' = [fnArgs EXCEPT ![f] = value]
  /\ UNCHANGED <<fnOut, storeVars, callVars, spamVars, hotVars, fileVars>>

\* handleAddImage for a valid URL not yet listed and a list that was empty:
\* setImages, then runMlAnalysis up to its await apiAnalyzeContent.  The
\* function keeps the field values of the render it was created in.
HandleAddImage(imageURL) ==
  /\ fnOut = <<>>
  /\ fnArgs.images = <<>>
  /\ fnArgs' = [fnArgs EXCEPT !.images = <<imageURL>>]
  /\ fnOut' = [pc |-> "apiAnalyzeContent",
               closure |-> [f \in FormFields |-> fnArgs[f]]]
  /\ UNCHANGED <<storeVars, callVars, spamVars, hotVars, fileVars>>

\* the fields runMlAnalysis sets when response.analysis is result: those
\* that are empty in the values it holds and have a suggestion
AutoApplied(closure, result) ==
  {f \in FormFields : FieldEmpty(closure, f) /\ HasSuggestion(result, f)}

\* runMlAnalysis from the return of apiAnalyzeContent to its end
ApplyAnalysis(response) ==
  /\ fnOut # <<>>
  /\ fnOut.pc = "apiAnalyzeContent"
  /\ LET applied == IF response.success /\ response.analysis # Null
                      THEN AutoApplied(fnOut.closure, response.analysis)
                      ELSE {}
     IN  /\ fnArgs' = [f \in DOMAIN fnArgs |->
                         IF f \in applied THEN Suggested(response.analysis, f)
                         ELSE fnArgs[f]]
         /\ fnOut' = [fnOut EXCEPT !.pc = "done"]
  /\ UNCHANGED <<storeVars, callVars, spamVars, hotVars, fileVars>>

(***************************************************************************)
(* One analysis started from the report form                               *)
(***************************************************************************)
TypedTexts == {<<>>, <<" ">>, <<"L", "e", "a", "k">>}
TypedCategories == {"", "water"}

AnalysisSuggestions ==
  {[suggestedTitle |-> <<"R", "o", "a", "d", " ", "i", "s", "s", "u", "e">>,
    enhancedDescription |-> <<"R", "o", "a", "d", " ", "i", "s", "s", "u", "e", " ", "r", "e", "p", "o", "r", "t", "e", "d">>,
    predictedCategory |-> "roads",
    extractedLocation |-> loc] :
     loc \in {Null, [address |-> <<"M", "G", " ", "R", "o", "a", "d">>]}}

AnalyzeResponses ==
  {[success |-> TRUE, analysis |-> a] : a \in AnalysisSuggestions}
  \cup {[success |-> FALSE, analysis |-> Null]}

InitForm ==
  /\ StoreInit
  /\ CallsInit
  /\ HotspotsInit
  /\ spamParts = <<>>
  /\ spamOut = Null
  /\ fnArgs = EmptyForm
  /\ fnOut = <<>>
  /\ BlobsInit

NextForm ==
  \/ \E f \in FormFields \ {"category"}, value \in TypedTexts : TypeField(f, value)
  \/ \E value \in TypedCategories : TypeField("category", value)
  \/ HandleAddImage(ImageUrl)
  \/ \E response \in AnalyzeResponses : ApplyAnalysis(response)

SpecForm == InitForm /\ [][NextForm]_vars

\* C25: when runMlAnalysis applies its result, a field is overwritten only
\* if it is empty at that moment, so what the user entered while the
\* analysis was in flight is never replaced.
SuggestionsOnlyFillEmptyFields ==
  [][(fnOut # <<>> /\ fnOut.pc = "apiAnalyzeContent" /\ fnOut'.pc = "done")
     => \A f \in FormFields :
          fnArgs'[f] # fnArgs[f] => FieldEmpty(fnArgs, f)]_vars

(***************************************************************************)
(* The deletion of an issue while its creation is still analysing it       *)
(***************************************************************************)
NextLateWrite ==
  \/ \E c \in DOMAIN calls, req \in CreateRequests, timestamp \in {now, now + 1} :
       CreateIssue(c, req, 2, timestamp)
  \/ \E c \in DOMAIN calls, ok \in BOOLEAN, readOk \in BOOLEAN,
        rConf \in RandomTenths, rQual \in {0} :
       ProcessLocally(c, ok, readOk, rConf, rQual)
  \/ \E c \in DOMAIN calls, done \in 0..4 : StoreMLAnalysis(c, done)
  \/ \E c \in DOMAIN calls, ok \in BOOLEAN : UpdatePriority(c, ok)
  \/ \E c \in DOMAIN calls, id \in DOMAIN issues, ok \in BOOLEAN :
       DeleteList(c, id, ok)
  \/ \E c \in DOMAIN calls, ok \in BOOLEAN : DeleteIssue(c, ok)
  \/ \E c \in DOMAIN calls : Return(c)

SpecLateWrite == Init /\ [][NextLateWrite]_vars

\* C28: once deleteIssue(id) has completed, no record exists at issues/id,
\* also when a storeMLAnalysis or an updateIssue for id that started before
\* the delete writes afterwards.
DeletedIssueStaysDeleted ==
  \A c \in DOMAIN calls :
    (/\ calls[c].op = "delete"
     /\ calls[c].pc = "done"
     /\ calls[c].response)
    => calls[c].issueId \notin DOMAIN issues

(***************************************************************************)
(* The useIssue hook: the issue id it was last rendered with, its issue    *)
(* state and the fetches it has started that have not settled              *)
(***************************************************************************)
MaxFetches == 3       \* fetches one mounted hook starts

\* getIssueById: { id, ...snapshot.val() }, or null when nothing is stored
getIssueById(store, issueId) ==
  IF issueId \in DOMAIN store
    THEN [id |-> issueId, data |-> store[issueId]]
    ELSE Null

\* useIssue(undefined) mounted: useState(null), and fetchIssue returns at once
HookInit ==
  /\ fnArgs = [issueId |-> Null, issue |-> Null, failed |-> FALSE, started |-> 0]
  /\ fnOut = <<>>

\* a render with another issueId: fetchIssue is made anew, the effect runs it
\* up to its await apiGetIssue(issueId)
RenderWith(issueId) ==
  /\ issueId # fnArgs.issueId
  /\ fnArgs.started < MaxFetches
  /\ fnArgs' = [fnArgs EXCEPT !.issueId = issueId, !.started = @ + 1]
  /\ fnOut' = Append(fnOut, issueId)
  /\ UNCHANGED <<storeVars, callVars, spamVars, hotVars, fileVars>>

\* the i-th outstanding apiGetIssue settles: setIssue(data), or the catch
\* when it threw (failed records that a fetch has thrown)
FetchSettles(i, ok) ==
  /\ i \in DOMAIN fnOut
  /\ fnArgs' = IF ok
                 THEN [fnArgs EXCEPT !.issue = getIssueById(issues, fnOut[i])]
                 ELSE [fnArgs EXCEPT !.failed = TRUE]
  /\ fnOut' = SubSeq(fnOut, 1, i - 1) \o SubSeq(fnOut, i + 1, Len(fnOut))
  /\ UNCHANGED <<storeVars, callVars, spamVars, hotVars, fileVars>>

(***************************************************************************)
(* A mounted useIssue hook over stored issues                              *)
(***************************************************************************)
\* the ids the hook is rendered with: the stored issues and one that is not
HookIds == StoredKeys \cup {PushKey(1)}

InitHook ==
  /\ \E first \in FirstReports :
       CorpusStored([i \in 1..MaxStored |-> first], [i \in 1..MaxStored |-> 0])
  /\ nextKey = 0
  /\ analyses = EmptyBag
  /\ now = 0
  /\ CallsInit
  /\ HotspotsInit
  /\ spamParts = <<>>
  /\ spamOut = Null
  /\ HookInit
  /\ BlobsInit

NextHook ==
  \/ \E issueId \in HookIds : RenderWith(issueId)
  \/ \E i \in 1..MaxFetches, ok \in BOOLEAN : FetchSettles(i, ok)

SpecHook == InitHook /\ [][NextHook]_vars

\* C30: once all outstanding fetches of useIssue have settled (none having
\* thrown), the issue state is the record of the hook's current issueId, or
\* null if none exists; a response for a previous issueId does not overwrite
\* it.
IssueStateIsCurrentRecord ==
  (fnOut = <<>> /\ fnArgs.issueId # Null /\ ~fnArgs.failed)
  => fnArgs.issue = getIssueById(issues, fnArgs.issueId)

====
